---- MODULE Spec2Model ----
(***************************************************************************)
(* A model of natural-language-commander: utterance matchers, the command  *)
(* dispatcher and the per-user question dialog of NaturalLanguageCommander.*)
(*                                                                         *)
(* Text is modelled at word granularity: a string is the sequence of its   *)
(* whitespace-separated words, "" is the empty sequence.  An utterance is  *)
(* a sequence of items, each a literal word or a {Name} placeholder.       *)
(***************************************************************************)
EXTENDS Integers, Sequences, FiniteSets, TLC

(***************************************************************************)
(* JavaScript values that travel through the engine.                       *)
(***************************************************************************)
Undefined == [t |-> "undefined", v |-> <<>>]
Str(words) == [t |-> "string", v |-> words]
Num(text) == [t |-> "number", v |-> <<text>>]
Obj(tag) == [t |-> "object", v |-> <<tag>>]

\* The engine keeps its tables in plain objects ({}), so reading a key that is
\* not in the table finds what Object.prototype has under that name.  These
\* are the inherited names the model's callers use.
ObjectPrototype == {"constructor", "toString", "valueOf", "hasOwnProperty"}

\* The inherited member: a function, given by its name.
Inherited(key) ==
  [t |-> "function", v |-> <<IF key = "constructor" THEN "Object" ELSE key>>]

\* The value is one of those functions and not an object of the engine.
IsFunction(x) == "t" \in DOMAIN x /\ x.t = "function"

\* JavaScript truthiness, as used by `data || userId`, `if (data)`, `!command`.
Truthy(x) ==
  CASE x.t = "undefined" -> FALSE
    [] x.t = "string" -> x.v # <<>>
    [] x.t = "number" -> x.v # <<"0">>
    [] OTHER -> TRUE

\* The JavaScript expression a || b.
OrElse(a, b) == IF Truthy(a) THEN a ELSE b

IsString(x) == x.t = "string"

(***************************************************************************)
(* Words and their character-level properties.                             *)
(***************************************************************************)
\* String.prototype.toLowerCase on one word: the words of the model that hold
\* an upper-case letter, each with its lower-case form.
LowerWord(w) ==
  CASE w = "RED" -> "red"
    [] w = "Cancel" -> "cancel"
    [] w = "First" -> "first"
    [] w = "HELLO" -> "hello"
    [] w = "{A}" -> "{a}"
    [] w = "{B}" -> "{b}"
    [] w = "{F}" -> "{f}"
    [] w = "{S}" -> "{s}"
    [] w = "{Slot}" -> "{slot}"
    [] OTHER -> w

toLowerCase(words) == [i \in 1..Len(words) |-> LowerWord(words[i])]

\* The word consists of \w characters only (letters, digits and _): every
\* word of the model but those that hold another character.
IsWordChars(w) ==
  w \notin {"9,000.01", "9,000x01", "9000.01", "$5", "blue?", "!!!", "wow!", "@bob",
            "don't", "don^t", "{A}", "{B}", "{F}", "{S}", "{Slot}", "{?}",
            "{a}", "{b}", "{f}", "{s}", "{slot}"}

\* The word matches [\d,]+(?:\.[\d,]+)? as a whole.
IsNumberText(w) == w \in {"0", "1", "2", "10", "9,000.01", "9000.01"}

\* text.replace(/,/g, "") on a number text, as the decimal numeral of the result.
StripCommas(w) == IF w = "9,000.01" THEN "9000.01" ELSE w

(***************************************************************************)
(* Slot types.  matcher is one of: a function (fn names it), a string or a *)
(* list of strings (list holds them), a regular expression (fn names it).  *)
(* baseMatcher "" stands for an absent baseMatcher.                        *)
(***************************************************************************)
Slot_STRING ==
  [type |-> "STRING", kind |-> "function", fn |-> "identity", list |-> <<>>,
   baseMatcher |-> ""]

Slot_WORD ==
  [type |-> "WORD", kind |-> "function", fn |-> "identity", list |-> <<>>,
   baseMatcher |-> "\\w+"]

Slot_NUMBER ==
  [type |-> "NUMBER", kind |-> "function", fn |-> "numberMatcher", list |-> <<>>,
   baseMatcher |-> "[\\d,]+(?:\\.[\\d,]+)?"]

\* this.slotTypes[name] is truthy: a slot type was added under the name, or the
\* name is inherited from Object.prototype.
HasSlotType(slotTypes, name) == name \in DOMAIN slotTypes \/ name \in ObjectPrototype

\* this.slotTypes[name] when it is truthy.  An inherited function read as a
\* slot type has no matcher and no baseMatcher.
SlotTypeAt(slotTypes, name) ==
  IF name \in DOMAIN slotTypes THEN slotTypes[name]
  ELSE [type |-> "", kind |-> "none", fn |-> "", list |-> <<>>, baseMatcher |-> ""]

\* The reserved slot type of cancellation phrases the cancel intent refers to.
Slot_NEVERMIND ==
  [type |-> "NEVERMIND", kind |-> "list", fn |-> "",
   list |-> << <<"nevermind">>, <<"Cancel">> >>, baseMatcher |-> ""]

\* numberMatcher of standardSlots: strip commas, _.toNumber, NaN -> undefined.
numberMatcher(text) ==
  IF Len(text) = 1 /\ IsNumberText(text[1])
  THEN Num(StripCommas(text[1]))
  ELSE Undefined

\* addSlotType lower-cases string and string-list matchers; others are kept.
LowerCasedMatcher(slotType) ==
  IF slotType.kind \in {"string", "list"}
  THEN [slotType EXCEPT
          !.list = [i \in 1..Len(slotType.list) |-> toLowerCase(slotType.list[i])]]
  ELSE slotType

(***************************************************************************)
(* Matcher: the compiled form of one utterance of one intent.              *)
(*   utterance items:  [k |-> "lit", w |-> word], [k |-> "ph", w |-> name] *)
(*   regExp items:     literal words, "alt" (a word or its misspellings),  *)
(*                     "grp" (a capture group, w is its inner pattern) and *)
(*                     "ph" (braces left in the pattern as literal text).  *)
(***************************************************************************)
Lit(w) == [k |-> "lit", w |-> w]
Ph(name) == [k |-> "ph", w |-> name]

\* utterance.search(/{(\w+?)}/): index of the first placeholder, 0 for -1.
RECURSIVE SearchSlot(_, _)
SearchSlot(utterance, i) ==
  IF i > Len(utterance) THEN 0
  ELSE IF utterance[i].k = "ph" THEN i
  ELSE SearchSlot(utterance, i + 1)

\* names.indexOf(slotName): the first declared slot of that name, 0 if none.
RECURSIVE IndexOfSlot(_, _, _)
IndexOfSlot(slots, name, i) ==
  IF i > Len(slots) THEN 0
  ELSE IF slots[i].name = name THEN i
  ELSE IndexOfSlot(slots, name, i + 1)

\* A variant that ignores the slot type's baseMatcher.
repaceSlotWithAnyText(utterance, slotType, matchIndex) ==
  [utterance EXCEPT ![matchIndex] = [k |-> "grp", w |-> ".+"]]

repaceSlotWithCaptureGroup(utterance, slotType, matchIndex) ==
  [utterance EXCEPT ![matchIndex] =
     [k |-> "grp",
      w |-> IF slotType.baseMatcher # "" THEN slotType.baseMatcher ELSE ".+"]]

\* The while loop of the constructor.  Returns the rewritten utterance and the
\* slot mapping, or threw = TRUE when a placeholder names an undeclared slot or a
\* slot whose type is not registered.
RECURSIVE ReplaceSlots(_, _, _, _)
ReplaceSlots(slotTypes, slots, utterance, slotMapping) ==
  LET matchIndex == SearchSlot(utterance, 1) IN
  IF matchIndex = 0
  THEN [threw |-> FALSE, utterance |-> utterance, slotMapping |-> slotMapping]
  ELSE LET slotIndex == IndexOfSlot(slots, utterance[matchIndex].w, 1) IN
       IF slotIndex = 0
       THEN [threw |-> TRUE, utterance |-> utterance, slotMapping |-> slotMapping]
       ELSE IF ~HasSlotType(slotTypes, slots[slotIndex].type)
       THEN [threw |-> TRUE, utterance |-> utterance, slotMapping |-> slotMapping]
       ELSE ReplaceSlots(slotTypes, slots,
              repaceSlotWithCaptureGroup(utterance,
                                         SlotTypeAt(slotTypes, slots[slotIndex].type),
                                         matchIndex),
              Append(slotMapping, slots[slotIndex]))

\* commonMistakes(word): the known misspellings of a correctly spelled word.
commonMistakes(w) == IF w = "definitely" THEN {"definately"} ELSE {}

replaceCommonMispellings(utterance) ==
  [i \in 1..Len(utterance) |->
     IF utterance[i].k = "lit" /\ commonMistakes(LowerWord(utterance[i].w)) # {}
     THEN [k |-> "alt", w |-> utterance[i].w]
     ELSE utterance[i]]

\* The matcher the constructor leaves, given the result r of its slot loop.
Compiled(intent, utterance, r) ==
  [threw |-> r.threw,
   matcher |-> [intent |-> intent.intent,
                slots |-> intent.slots,
                callback |-> intent.callback,
                originalUtterance |-> utterance,
                regExp |-> replaceCommonMispellings(r.utterance),
                slotMapping |-> r.slotMapping]]

\* new Matcher(slotTypes, intent, utterance): threw = TRUE when the constructor
\* throws; otherwise matcher is the new object.  The matcher keeps a reference to
\* its intent: the intent's name, declared slots and callback are read through it.
NewMatcher(slotTypes, intent, utterance) ==
  Compiled(intent, utterance,
           IF Len(intent.slots) > 0
           THEN ReplaceSlots(slotTypes, intent.slots, utterance, <<>>)
           ELSE [threw |-> FALSE, utterance |-> utterance, slotMapping |-> <<>>])

(***************************************************************************)
(* Matching a command against a compiled pattern.  The pattern is anchored *)
(* at both ends (^\s* ... \s*$) and its items are separated by \s+, so     *)
(* every item consumes whole words.  Groups are greedy: the longest        *)
(* capture for which the rest of the pattern still matches is taken.       *)
(***************************************************************************)
\* The text of a placeholder left in the pattern: "{" + name + "}".
Braced(name) ==
  CASE name = "Slot" -> "{Slot}"
    [] name = "A" -> "{A}"
    [] name = "B" -> "{B}"
    [] name = "F" -> "{F}"
    [] name = "S" -> "{S}"
    [] OTHER -> "{?}"

\* A literal word of an utterance goes into the pattern unescaped, so it is
\* read as a regular expression: in "blue?" the e is optional, "$5" asks for the
\* end of the input before 5, and the dot of "9,000.01" stands for any character.
WordPattern(p, w) ==
  CASE p = "blue?" -> LowerWord(w) \in {"blue", "blu"}
    [] p = "$5" -> FALSE
    [] p = "9,000.01" -> w \in {"9,000.01", "9,000x01"}
    [] OTHER -> LowerWord(p) = LowerWord(w)

\* One non-group item against one word (the pattern is case-insensitive).
ItemMatchesWord(item, w) ==
  CASE item.k = "lit" -> WordPattern(item.w, w)
    [] item.k = "alt" -> \/ LowerWord(item.w) = LowerWord(w)
                         \/ LowerWord(w) \in commonMistakes(LowerWord(item.w))
    [] item.k = "ph" -> LowerWord(Braced(item.w)) = LowerWord(w)
    [] OTHER -> FALSE

\* A capture group's inner pattern against the words it would capture.
GroupAccepts(base, text) ==
  CASE base = ".+" -> Len(text) >= 1
    [] base = "\\w+" -> Len(text) = 1 /\ IsWordChars(text[1])
    [] OTHER -> Len(text) = 1 /\ IsNumberText(text[1])

NoMatch == [ok |-> FALSE, caps |-> <<>>]

RECURSIVE MatchFrom(_, _, _, _)
RECURSIVE TryGroup(_, _, _, _, _)
\* Match regExp[i..] against command[j..]; caps are the groups' captures in order.
MatchFrom(regExp, i, command, j) ==
  IF i > Len(regExp)
  THEN IF j > Len(command) THEN [ok |-> TRUE, caps |-> <<>>] ELSE NoMatch
  ELSE IF regExp[i].k = "grp"
  THEN TryGroup(regExp, i, command, j, Len(command) - j + 1)
  ELSE IF j <= Len(command) /\ ItemMatchesWord(regExp[i], command[j])
  THEN MatchFrom(regExp, i + 1, command, j + 1)
  ELSE NoMatch

\* Group regExp[i] capturing n words from command[j], n tried from long to short.
TryGroup(regExp, i, command, j, n) ==
  IF n < 1 THEN NoMatch
  ELSE LET text == SubSeq(command, j, j + n - 1)
           rest == IF GroupAccepts(regExp[i].w, text)
                   THEN MatchFrom(regExp, i + 1, command, j + n)
                   ELSE NoMatch
       IN IF rest.ok
          THEN [ok |-> TRUE, caps |-> <<text>> \o rest.caps]
          ELSE TryGroup(regExp, i, command, j, n - 1)

\* command.match(this.regExp)
RegExpMatch(regExp, command) == MatchFrom(regExp, 1, command, 1)

getRegexpSlot(slotText, slotType) ==
  IF Len(slotText) >= 1 /\ slotText[1] \in {"@bob"} THEN Str(slotText) ELSE Undefined

getStringSlot(slotText, slotType) ==
  IF toLowerCase(slotText) = slotType.list[1] THEN Str(slotText) ELSE Undefined

getListSlotType(slotText, slotType) ==
  IF \E i \in 1..Len(slotType.list) : slotType.list[i] = toLowerCase(slotText)
  THEN Str(slotText)
  ELSE Undefined

\* A client's matcher function, text => text.replace(/!/g, ""), on one word.
WithoutBangs(w) ==
  CASE w = "!!!" -> ""
    [] w = "wow!" -> "wow"
    [] OTHER -> w

withoutBangs(text) ==
  Str(SelectSeq([i \in 1..Len(text) |-> WithoutBangs(text[i])], LAMBDA w : w # ""))

getFunctionSlotType(slotText, slotType) ==
  CASE slotType.fn = "numberMatcher" -> numberMatcher(slotText)
    [] slotType.fn = "withoutBangs" -> withoutBangs(slotText)
    [] OTHER -> Str(slotText)

\* checkSlotMatch for a slot type that exists (the caller handles the throw).
checkSlotMatch(slotText, slotType) ==
  CASE slotType.kind = "regexp" -> getRegexpSlot(slotText, slotType)
    [] slotType.kind = "string" -> getStringSlot(slotText, slotType)
    [] slotType.kind = "list" -> getListSlotType(slotText, slotType)
    [] OTHER -> getFunctionSlotType(slotText, slotType)

\* A variant that takes every falsy slot value for a failed match.
RECURSIVE CheckSlotsTruthy(_, _, _, _, _)
CheckSlotsTruthy(slotTypes, slotMapping, caps, i, matchedSlots) ==
  IF i > Len(slotMapping)
  THEN [threw |-> FALSE, badMatch |-> FALSE, matchedSlots |-> matchedSlots]
  ELSE IF \/ ~HasSlotType(slotTypes, slotMapping[i].type)
          \/ SlotTypeAt(slotTypes, slotMapping[i].type).kind = "none"
  THEN [threw |-> TRUE, badMatch |-> TRUE, matchedSlots |-> matchedSlots]
  ELSE LET slotData == checkSlotMatch(caps[i], slotTypes[slotMapping[i].type]) IN
       IF ~Truthy(slotData)
       THEN [threw |-> FALSE, badMatch |-> TRUE, matchedSlots |-> matchedSlots]
       ELSE CheckSlotsTruthy(slotTypes, slotMapping, caps, i + 1,
                       [n \in DOMAIN matchedSlots \cup {slotMapping[i].name} |->
                          IF n = slotMapping[i].name THEN slotData ELSE matchedSlots[n]])

\* The _.forEach over slotMapping in check: stops at the first bad slot.
\* checkSlotMatch throws when this.slotTypes[type] is falsy, and when it is an
\* inherited function: its matcher is undefined, and getFunctionSlotType calls it.
RECURSIVE CheckSlots(_, _, _, _, _)
CheckSlots(slotTypes, slotMapping, caps, i, matchedSlots) ==
  IF i > Len(slotMapping)
  THEN [threw |-> FALSE, badMatch |-> FALSE, matchedSlots |-> matchedSlots]
  ELSE IF \/ ~HasSlotType(slotTypes, slotMapping[i].type)
          \/ SlotTypeAt(slotTypes, slotMapping[i].type).kind = "none"
  THEN [threw |-> TRUE, badMatch |-> TRUE, matchedSlots |-> matchedSlots]
  ELSE LET slotData == checkSlotMatch(caps[i], slotTypes[slotMapping[i].type]) IN
       IF slotData = Undefined \/ slotData = Str(<<>>)
       THEN [threw |-> FALSE, badMatch |-> TRUE, matchedSlots |-> matchedSlots]
       ELSE CheckSlots(slotTypes, slotMapping, caps, i + 1,
                       [n \in DOMAIN matchedSlots \cup {slotMapping[i].name} |->
                          IF n = slotMapping[i].name THEN slotData ELSE matchedSlots[n]])

\* obj[key] on a plain object whose keys are names.
Member(obj, key) ==
  IF key \in DOMAIN obj THEN obj[key]
  ELSE IF key \in ObjectPrototype THEN Inherited(key)
  ELSE Undefined

\* A variant that lists the slot values from the last declared slot to the first.
getOrderedSlotsReversed(slots, matchedSlots) ==
  [i \in 1..Len(slots) |->
     [name |-> slots[Len(slots) + 1 - i].name,
      value |-> Member(matchedSlots, slots[Len(slots) + 1 - i].name)]]

\* The slot values in the order the intent declares its slots.
getOrderedSlots(slots, matchedSlots) ==
  [i \in 1..Len(slots) |->
     [name |-> slots[i].name,
      value |-> Member(matchedSlots, slots[i].name)]]

EmptyMapping == [n \in {} |-> Undefined]

\* The end of check, given the result r of its loop over the slot mapping.
Checked(matcher, r) ==
  IF r.threw THEN [threw |-> TRUE, matched |-> FALSE, slots |-> <<>>]
  ELSE IF r.badMatch THEN [threw |-> FALSE, matched |-> FALSE, slots |-> <<>>]
  ELSE [threw |-> FALSE, matched |-> TRUE,
        slots |-> getOrderedSlots(matcher.slots, r.matchedSlots)]

\* check, given the result of command.match(this.regExp).
CheckMatches(slotTypes, matcher, matches) ==
  IF ~matches.ok
  THEN [threw |-> FALSE, matched |-> FALSE, slots |-> <<>>]
  ELSE IF Len(matcher.slotMapping) = 0
  THEN [threw |-> FALSE, matched |-> TRUE, slots |-> <<>>]
  ELSE Checked(matcher,
               CheckSlots(slotTypes, matcher.slotMapping, matches.caps, 1, EmptyMapping))

\* Matcher.check: matched = FALSE stands for the undefined return value.
check(slotTypes, matcher, command) ==
  CheckMatches(slotTypes, matcher, RegExpMatch(matcher.regExp, command))

(***************************************************************************)
(* The engine: NaturalLanguageCommander.                                   *)
(***************************************************************************)
\* The key of the anonymous user in activeQuestions.
ANONYMOUS == <<"ANONYMOUS">>

\* A variant that files every user under the anonymous key.
UserKeyShared(userId) == ANONYMOUS

\* userId || ANONYMOUS
UserKey(userId) == IF Truthy(userId) THEN userId.v ELSE ANONYMOUS

\* One word of cleanCommand: smart quotes become ASCII quotes.  In a word of the
\* model ^ stands for the right single quotation mark U+2019.
CleanWord(w) == IF w = "don^t" THEN "don't" ELSE w

\* cleanCommand: replace smart quotes, trim (a word sequence has no outer blanks).
cleanCommand(command) == [i \in 1..Len(command) |-> CleanWord(command[i])]

doesIntentExist(intentNames, intentName) ==
  \E i \in 1..Len(intentNames) : intentNames[i] = intentName

\* The _.forEach over intent.utterances in registerIntent: pushes one matcher per
\* utterance and stops, with what was pushed so far, when a constructor throws.
RECURSIVE PushMatchers(_, _, _, _, _)
RECURSIVE PushMatcher(_, _, _, _, _, _)
PushMatchers(slotTypes, intent, utterances, i, matchers) ==
  IF i > Len(utterances) THEN [threw |-> FALSE, matchers |-> matchers]
  ELSE PushMatcher(slotTypes, intent, utterances, i, matchers,
                   NewMatcher(slotTypes, intent, utterances[i]))

\* this.matchers.push(new Matcher(...)) for utterance i, m the constructor's result.
PushMatcher(slotTypes, intent, utterances, i, matchers, m) ==
  IF m.threw THEN [threw |-> TRUE, matchers |-> matchers]
  ELSE PushMatchers(slotTypes, intent, utterances, i + 1, Append(matchers, m.matcher))

\* The engine after registerIntent pushed the intent, its name and its matchers.
Registered(e, intent, pushed) ==
  [ret |-> IF pushed.threw THEN "threw" ELSE "true",
   e |-> [intentNames |-> Append(e.intentNames, intent.intent),
          intents |-> Append(e.intents, intent),
          matchers |-> pushed.matchers]]

\* registerIntent on an engine e = [intentNames, intents, matchers].
\* ret is "true", "false" or "threw"; e is the engine afterwards.
registerIntent(slotTypes, e, intent) ==
  IF doesIntentExist(e.intentNames, intent.intent)
  THEN [ret |-> "false", e |-> e]
  ELSE Registered(e, intent,
                  PushMatchers(slotTypes, intent, intent.utterances, 1, e.matchers))

\* A variant for which no utterance is a bare placeholder.
IsBareSlotNever(utterance) == FALSE

\* /^{(\w+?)}$/.test(originalUtterance)
IsBareSlot(utterance) == Len(utterance) = 1 /\ utterance[1].k = "ph"

NoFulfilment == [intent |-> "", slots |-> <<>>]

\* The slot values of a fulfilment, preceded by the datum when there is one.
CallSlots(data, slots) ==
  (IF Truthy(data) THEN <<data>> ELSE <<>>)
    \o [k \in 1..Len(slots) |-> slots[k].value]

\* The _.forEach over this.matchers in handleNormalCommand, from matcher i on.
\* acc = [threw, found, foundMatch, fired, checked]: fired lists the callbacks
\* invoked so far, checked the indices of the matchers whose check was run.
RECURSIVE ForEachMatcher(_, _, _, _, _, _)
RECURSIVE OnChecked(_, _, _, _, _, _, _)
ForEachMatcher(slotTypes, matchers, data, command, i, acc) ==
  IF i > Len(matchers) THEN acc
  ELSE OnChecked(slotTypes, matchers, data, command, i,
                 [acc EXCEPT !.checked = Append(@, i)],
                 check(slotTypes, matchers[i], command))

\* The body of the loop for matcher i once its check returned orderedSlots.
OnChecked(slotTypes, matchers, data, command, i, acc, orderedSlots) ==
  IF orderedSlots.threw THEN [acc EXCEPT !.threw = TRUE]
  ELSE IF ~orderedSlots.matched
  THEN ForEachMatcher(slotTypes, matchers, data, command, i + 1, acc)
  ELSE IF ~IsBareSlot(matchers[i].originalUtterance)
  THEN [acc EXCEPT
          !.found = TRUE,
          !.foundMatch = [intent |-> matchers[i].intent, slots |-> orderedSlots.slots],
          !.fired = Append(@, [cb |-> matchers[i].callback.cb,
                               name |-> matchers[i].callback.name,
                               args |-> CallSlots(data, orderedSlots.slots)])]
  ELSE ForEachMatcher(slotTypes, matchers, data, command, i + 1,
         [acc EXCEPT
            !.found = TRUE,
            !.foundMatch = [intent |-> matchers[i].intent, slots |-> orderedSlots.slots],
            !.fired = Append(@, [cb |-> matchers[i].callback.cb,
                                 name |-> matchers[i].callback.name,
                                 args |-> CallSlots(data, orderedSlots.slots)])])

\* A variant that walks the matchers from the last registered to the first.
handleNormalCommandBackwards(slotTypes, matchers, data, command) ==
  LET n == Len(matchers)
      r == ForEachMatcher(slotTypes, [i \in 1..n |-> matchers[n + 1 - i]], data, command, 1,
                          [threw |-> FALSE, found |-> FALSE, foundMatch |-> NoFulfilment,
                           fired |-> <<>>, checked |-> <<>>])
  IN [r EXCEPT !.checked = [i \in 1..Len(r.checked) |-> n + 1 - r.checked[i]]]

handleNormalCommand(slotTypes, matchers, data, command) ==
  ForEachMatcher(slotTypes, matchers, data, command, 1,
                 [threw |-> FALSE, found |-> FALSE, foundMatch |-> NoFulfilment,
                  fired |-> <<>>, checked |-> <<>>])

\* The overload resolution at the head of handleCommand.  A call is
\*   form "command": handleCommand(command)
\*   form "data":    handleCommand(data, command)
\*   form "options": handleCommand({command, data, userId})
\* threw = TRUE when the call throws before anything is scheduled.
HandleOverload(call) ==
  LET first == IF call.form = "command" THEN Str(call.command) ELSE call.data
      second == IF call.form = "data" THEN Str(call.command) ELSE Undefined
  IN IF call.form # "options" /\ IsString(first) /\ ~Truthy(second)
     THEN [threw |-> FALSE, command |-> first.v, data |-> Undefined,
           userId |-> Undefined]
     ELSE IF Truthy(second)
     THEN [threw |-> FALSE, command |-> second.v, data |-> first, userId |-> Undefined]
     ELSE IF call.form = "options"
     THEN [threw |-> FALSE, command |-> call.command, data |-> call.data,
           userId |-> call.userId]
     ELSE [threw |-> TRUE, command |-> <<>>, data |-> Undefined, userId |-> Undefined]

(***************************************************************************)
(* Question: a registered question with its private engine (a clone that   *)
(* shares the parent's slot types).  questionData is what the caller       *)
(* passed: name, slotType, utterances (hasUtterances = FALSE when absent), *)
(* cancel (a cancelCallback was given) and, for the callbacks of the       *)
(* caller, the question each of them asks again with ask(name)             *)
(* (successAsks, failAsks, cancelAsks; "" when the callback asks nothing). *)
(***************************************************************************)
JUST_THE_SLOT_UTTERANCE == << <<Ph("Slot")>> >>

EmptyEngine == [intentNames |-> <<>>, intents |-> <<>>, matchers |-> <<>>]

questionIntent(questionData) ==
  [intent |-> questionData.name,
   slots |-> <<[name |-> "Slot", type |-> questionData.slotType]>>,
   utterances |-> IF questionData.hasUtterances THEN questionData.utterances
                  ELSE JUST_THE_SLOT_UTTERANCE,
   callback |-> [cb |-> "success", name |-> questionData.name]]

cancelIntent(questionData) ==
  [intent |-> "CANCEL",
   slots |-> <<[name |-> "Slot", type |-> "NEVERMIND"]>>,
   utterances |-> JUST_THE_SLOT_UTTERANCE,
   callback |-> [cb |-> "cancel", name |-> questionData.name]]

\* The Question whose engine is nlc after its constructor registered its intents.
Constructed(questionData, cancelled, asked) ==
  [threw |-> cancelled.ret = "threw" \/ asked.ret = "threw",
   question |-> [name |-> questionData.name,
                 questionData |-> questionData,
                 nlc |-> [intentNames |-> asked.e.intentNames,
                          matchers |-> asked.e.matchers]]]

\* The constructor once the cancel intent, if any, was registered on the clone.
WithCancel(slotTypes, questionData, cancelled) ==
  Constructed(questionData, cancelled,
              registerIntent(slotTypes, cancelled.e, questionIntent(questionData)))

\* new Question(parentNlc, questionData)
NewQuestion(slotTypes, questionData) ==
  WithCancel(slotTypes, questionData,
             IF questionData.cancel
             THEN registerIntent(slotTypes, EmptyEngine, cancelIntent(questionData))
             ELSE [ret |-> "true", e |-> EmptyEngine])

(***************************************************************************)
(* State.                                                                  *)
(***************************************************************************)
VARIABLES
  slotTypes,         \* type name -> slot type, shared with every question's engine
  intentNames,       \* names taken by intents and questions
  intents,           \* the registered intents
  matchers,          \* the compiled matchers, in priority order
  questions,         \* question name -> Question
  activeQuestions,   \* user key -> Question, or Undefined once finished
  notFoundCallback,  \* TRUE once registerNotFound replaced the no-op
  tasks,             \* callbacks passed to delay(), in the order they will run
  last               \* what the last operation did (returned, invoked, settled)

vars ==
  <<slotTypes, intentNames, intents, matchers, questions, activeQuestions,
    notFoundCallback, tasks, last>>

\* What the user passed to handleCommand, after the overloads and cleanCommand.
Asked(command, data, userId) == [command |-> command, data |-> data, userId |-> userId]

\* A callback passed to delay(), or a promise job.  kind "command":
\* handleCommand's, on this engine; kind "answer": handleCommand's on the engine
\* of question, with command and data as that call resolved them, answerData what
\* Question.answer was given, userId and asked those of the user's command; kind
\* "ask": ask's.  The promise jobs that follow an answer: "fulfilled" and
\* "rethrown" pass a settled promise through a handler that is not for it,
\* "answered" is the then of handleQuestionAnswer, "failed" the catch of
\* Question.answer, "rejecting" the catch of handleQuestionAnswer.  before is the
\* question that was pending for the user when handleCommand was called; invoked
\* and scanned are the callbacks invoked and the matchers checked by the earlier
\* steps for the same answer.
NoTask ==
  [kind |-> "none", question |-> Undefined, command |-> <<>>, data |-> Undefined,
   answerData |-> Undefined, userId |-> Undefined,
   asked |-> Asked(<<>>, Undefined, Undefined), utterance |-> <<>>,
   before |-> Undefined, invoked |-> <<>>, scanned |-> <<>>]

\* Where in the queue a promise job queued by the task that runs now (the head)
\* comes, as the number of queued tasks that run before it.  Promise jobs run in
\* the order they were queued, so it comes behind the jobs that wait.  When none
\* waits, a job queued by a promise job runs next; one queued by a delayed
\* callback runs next where the runtime drains the jobs after every callback, and
\* after the rest of the batch, which is any number of the callbacks already
\* scheduled, where the callbacks of setImmediate run in batches.
JobSlots(queue) ==
  LET jobs == {i \in 2..Len(queue) :
                 queue[i].kind \in {"fulfilled", "answered", "failed", "rethrown",
                                    "rejecting"}}
  IN IF jobs # {} THEN {(CHOOSE i \in jobs : \A j \in jobs : j <= i) - 1}
     ELSE IF Head(queue).kind = "answer" THEN 0..(Len(queue) - 1)
     ELSE {0}

\* The queue after the head ran and queued the job behind n of the tasks that
\* waited; later is what the head scheduled with delay().
QueueJob(queue, n, job, later) ==
  SubSeq(queue, 2, n + 1) \o <<job>> \o SubSeq(queue, n + 2, Len(queue)) \o later

NotSettled == [state |-> "pending", value |-> Undefined]

\* A variant that drops the callback instead of scheduling it.
delayNever(queue, task) == queue

\* delay(callback): setImmediate or setTimeout puts the callback behind those
\* already scheduled.
delay(queue, task) == Append(queue, task)

\* What an operation did: op names it, ret is what the call returned ("true",
\* "false", "void", "promise") or "threw"; task is the delayed callback a tick
\* ran; fired are the caller's callbacks invoked, in order; checked are the
\* matchers whose check ran; settled is how the promise of the call was settled.
Did(op, ret, task, fired, checked, settled) ==
  [op |-> op, ret |-> ret, task |-> task, fired |-> fired, checked |-> checked,
   settled |-> settled]

Returned(op, ret) == Did(op, ret, NoTask, <<>>, <<>>, NotSettled)

\* What a registration call returned, with the name it was given.
Named(op, ret, name) ==
  Did(op, ret, [NoTask EXCEPT !.command = <<name>>], <<>>, <<>>, NotSettled)

\* What addUtterance or removeUtterance returned, with its two arguments.
Uttered(op, ret, name, utterance) ==
  Did(op, ret, [NoTask EXCEPT !.command = <<name>>, !.utterance = utterance],
      <<>>, <<>>, NotSettled)

\* this.activeQuestions[userId || ANONYMOUS]; a key is the word sequence of the
\* user id, and the text of an inherited name is a single word.
getActiveQuestion(active, userId) ==
  IF UserKey(userId) \in DOMAIN active THEN active[UserKey(userId)]
  ELSE IF Len(UserKey(userId)) = 1 /\ UserKey(userId)[1] \in ObjectPrototype
  THEN Inherited(UserKey(userId)[1])
  ELSE Undefined

\* A variant that keeps the question a user already has pending.
setActiveQuestionIfIdle(active, userId, question) ==
  IF getActiveQuestion(active, userId) # Undefined /\ question # Undefined
  THEN active
  ELSE [k \in DOMAIN active \cup {UserKey(userId)} |->
          IF k = UserKey(userId) THEN question ELSE active[k]]

setActiveQuestion(active, userId, question) ==
  [k \in DOMAIN active \cup {UserKey(userId)} |->
     IF k = UserKey(userId) THEN question ELSE active[k]]

\* A variant that leaves the user's question in place.
finishQuestionLater(active, userId) == active

finishQuestion(active, userId) == setActiveQuestion(active, userId, Undefined)

\* The synchronous part of ask on the state d = [active, tasks]: look the
\* question up, make it active, pass the rest to delay().
askNow(registered, d, questionName, data, userId) ==
  LET question == Member(registered, questionName)
  IN [active |-> IF question # Undefined
                 THEN setActiveQuestion(d.active, userId, question)
                 ELSE d.active,
      tasks |-> delay(d.tasks,
                  [NoTask EXCEPT !.kind = "ask", !.question = question,
                                 !.data = OrElse(data, userId), !.userId = userId])]

\* The question a callback of the caller asks again, "" when it asks nothing.
AsksAgain(question, cb) ==
  CASE cb = "success" -> question.questionData.successAsks
    [] cb = "fail" -> question.questionData.failAsks
    [] cb = "cancel" -> question.questionData.cancelAsks
    [] OTHER -> ""

\* Run the caller's side of the callbacks fired[i..] of a question: each one that
\* asks again calls ask(questionName), without a user id.
RECURSIVE RunCallbacks(_, _, _, _, _)
RunCallbacks(registered, d, question, fired, i) ==
  IF i > Len(fired) THEN d
  ELSE RunCallbacks(registered,
         IF AsksAgain(question, fired[i].cb) # ""
         THEN askNow(registered, d, AsksAgain(question, fired[i].cb), Undefined,
                     Undefined)
         ELSE d,
         question, fired, i + 1)

(***************************************************************************)
(* Registration operations.                                                *)
(***************************************************************************)
Engine == [intentNames |-> intentNames, intents |-> intents, matchers |-> matchers]

\* A variant that lets a slot type replace one of the same name.
AddSlotTypeOverwrites(slotType) ==
  /\ slotTypes' = (slotType.type :> LowerCasedMatcher(slotType)) @@
                    [n \in DOMAIN slotTypes \ {slotType.type} |-> slotTypes[n]]
  /\ last' = Named("addSlotType", "void", slotType.type)
  /\ UNCHANGED <<intentNames, intents, matchers, questions, activeQuestions,
                 notFoundCallback, tasks>>

AddSlotType(slotType) ==
  /\ IF HasSlotType(slotTypes, slotType.type)
     THEN /\ last' = Named("addSlotType", "threw", slotType.type)
          /\ UNCHANGED slotTypes
     ELSE /\ slotTypes' = (slotType.type :> LowerCasedMatcher(slotType)) @@ slotTypes
          /\ last' = Named("addSlotType", "void", slotType.type)
  /\ UNCHANGED <<intentNames, intents, matchers, questions, activeQuestions,
                 notFoundCallback, tasks>>

RemoveSlotType(slotTypeName) ==
  /\ IF \E i \in 1..Len(intents) :
          \E j \in 1..Len(intents[i].slots) : intents[i].slots[j].type = slotTypeName
     THEN /\ last' = Named("removeSlotType", "threw", slotTypeName)
          /\ UNCHANGED slotTypes
     ELSE /\ slotTypes' = [n \in DOMAIN slotTypes \ {slotTypeName} |-> slotTypes[n]]
          /\ last' = Named("removeSlotType", "void", slotTypeName)
  /\ UNCHANGED <<intentNames, intents, matchers, questions, activeQuestions,
                 notFoundCallback, tasks>>

\* nlc.clone().removeSlotType(slotTypeName): the clone shares the slot types
\* of its parent and has no intents, so nothing stops the removal.
CloneRemoveSlotType(slotTypeName) ==
  /\ slotTypes' = [n \in DOMAIN slotTypes \ {slotTypeName} |-> slotTypes[n]]
  /\ last' = Named("clone.removeSlotType", "void", slotTypeName)
  /\ UNCHANGED <<intentNames, intents, matchers, questions, activeQuestions,
                 notFoundCallback, tasks>>

RegisterIntent(intent) ==
  \E r \in {registerIntent(slotTypes, Engine, intent)} :
  /\ intentNames' = r.e.intentNames
  /\ intents' = r.e.intents
  /\ matchers' = r.e.matchers
  /\ last' = Named("registerIntent", r.ret, intent.intent)
  /\ UNCHANGED <<slotTypes, questions, activeQuestions, notFoundCallback, tasks>>

\* A variant that forgets the intent and its name but keeps its matchers.
DeregisterIntentKeepsMatchers(intentName) ==
  /\ IF ~doesIntentExist(intentNames, intentName)
     THEN /\ last' = Named("deregisterIntent", "false", intentName)
          /\ UNCHANGED <<intentNames, intents>>
     ELSE /\ intentNames' = SelectSeq(intentNames, LAMBDA name : name # intentName)
          /\ intents' = SelectSeq(intents, LAMBDA intent : intent.intent # intentName)
          /\ last' = Named("deregisterIntent", "true", intentName)
  /\ UNCHANGED <<slotTypes, matchers, questions, activeQuestions, notFoundCallback,
                 tasks>>

DeregisterIntent(intentName) ==
  /\ IF ~doesIntentExist(intentNames, intentName)
     THEN /\ last' = Named("deregisterIntent", "false", intentName)
          /\ UNCHANGED <<intentNames, intents, matchers>>
     ELSE /\ intentNames' = SelectSeq(intentNames, LAMBDA name : name # intentName)
          /\ intents' = SelectSeq(intents, LAMBDA intent : intent.intent # intentName)
          /\ matchers' = SelectSeq(matchers, LAMBDA matcher : matcher.intent # intentName)
          /\ last' = Named("deregisterIntent", "true", intentName)
  /\ UNCHANGED <<slotTypes, questions, activeQuestions, notFoundCallback, tasks>>

RegisterQuestion(questionData) ==
  /\ IF doesIntentExist(intentNames, questionData.name)
     THEN /\ last' = Named("registerQuestion", "false", questionData.name)
          /\ UNCHANGED <<intentNames, questions>>
     ELSE \E made \in {NewQuestion(slotTypes, questionData)} :
          /\ intentNames' = Append(intentNames, questionData.name)
          /\ IF made.threw
             THEN /\ last' = Named("registerQuestion", "threw", questionData.name)
                  /\ UNCHANGED questions
             ELSE /\ questions' = (questionData.name :> made.question) @@ questions
                  /\ last' = Named("registerQuestion", "true", questionData.name)
  /\ UNCHANGED <<slotTypes, intents, matchers, activeQuestions, notFoundCallback, tasks>>

DeregisterQuestion(questionName) ==
  /\ IF ~doesIntentExist(intentNames, questionName)
     THEN /\ last' = Named("deregisterQuestion", "false", questionName)
          /\ UNCHANGED <<intentNames, questions>>
     ELSE /\ intentNames' = SelectSeq(intentNames, LAMBDA name : name # questionName)
          /\ questions' = [n \in DOMAIN questions \ {questionName} |-> questions[n]]
          /\ last' = Named("deregisterQuestion", "true", questionName)
  /\ UNCHANGED <<slotTypes, intents, matchers, activeQuestions, notFoundCallback, tasks>>

RegisterNotFound ==
  /\ notFoundCallback' = TRUE
  /\ last' = Returned("registerNotFound", "void")
  /\ UNCHANGED <<slotTypes, intentNames, intents, matchers, questions, activeQuestions,
                 tasks>>

\* _.find(this.intents, intent => intent.intent === intentName), 0 if none.
RECURSIVE FindIntent(_, _, _)
FindIntent(list, intentName, i) ==
  IF i > Len(list) THEN 0
  ELSE IF list[i].intent = intentName THEN i
  ELSE FindIntent(list, intentName, i + 1)

Includes(seq, x) == \E i \in 1..Len(seq) : seq[i] = x

AddUtterance(intentName, utterance) ==
  \E i \in {FindIntent(intents, intentName, 1)} :
  /\ IF i = 0 \/ Includes(intents[i].utterances, utterance)
     THEN /\ last' = Uttered("addUtterance", "false", intentName, utterance)
          /\ UNCHANGED <<intents, matchers>>
     ELSE \E intent \in {[intents[i] EXCEPT !.utterances = Append(@, utterance)]} :
          \E made \in {NewMatcher(slotTypes, intent, utterance)} :
             /\ intents' = [intents EXCEPT ![i] = intent]
             /\ IF made.threw
                THEN /\ last' = Uttered("addUtterance", "threw", intentName, utterance)
                     /\ UNCHANGED matchers
                ELSE /\ matchers' = Append(matchers, made.matcher)
                     /\ last' = Uttered("addUtterance", "true", intentName, utterance)
  /\ UNCHANGED <<slotTypes, intentNames, questions, activeQuestions, notFoundCallback,
                 tasks>>

RemoveUtterance(intentName, utterance) ==
  \E i \in {FindIntent(intents, intentName, 1)} :
  /\ IF i = 0 \/ ~Includes(intents[i].utterances, utterance)
     THEN /\ last' = Uttered("removeUtterance", "false", intentName, utterance)
          /\ UNCHANGED <<intents, matchers>>
     ELSE /\ intents' = [intents EXCEPT
                           ![i].utterances = SelectSeq(@, LAMBDA u : u # utterance)]
          /\ matchers' = SelectSeq(matchers,
                                   LAMBDA matcher : matcher.originalUtterance # utterance)
          /\ last' = Uttered("removeUtterance", "true", intentName, utterance)
  /\ UNCHANGED <<slotTypes, intentNames, questions, activeQuestions, notFoundCallback,
                 tasks>>

(***************************************************************************)
(* handleCommand and ask: the synchronous part of each call, then the      *)
(* callback it passed to delay().  Delayed callbacks run one at a time, in *)
(* the order they were scheduled.  The promise jobs that follow an answer  *)
(* are steps of their own, one for each handler of the chain               *)
(*   nlc.handleCommand(..).catch(fail).then(resolve).catch(reject)         *)
(* and wait in the queue at the place the runtime runs them.               *)
(***************************************************************************)
HandleCommand(call) ==
  \E o \in {HandleOverload(call)} :
  /\ IF o.threw
     THEN /\ last' = Returned("handleCommand", "threw")
          /\ UNCHANGED tasks
     ELSE /\ tasks' = delay(tasks,
                [NoTask EXCEPT !.kind = "command", !.command = cleanCommand(o.command),
                               !.data = o.data, !.userId = o.userId,
                               !.asked = Asked(cleanCommand(o.command), o.data,
                                               o.userId),
                               !.before = getActiveQuestion(activeQuestions,
                                                            o.userId)])
          /\ last' = Returned("handleCommand", "promise")
  /\ UNCHANGED <<slotTypes, intentNames, intents, matchers, questions, activeQuestions,
                 notFoundCallback>>

\* What a call of ask was given and found: the name it asked by, its user and the
\* question that was pending for that user.
Replaced(question, questionName, userId) ==
  [NoTask EXCEPT !.question = question, !.command = <<questionName>>,
                 !.userId = userId]

\* ask(questionName) is form "name"; ask({question, data, userId}) is form "options".
\* last.task tells what the call was given and found pending for the user.
Ask(call) ==
  \E d \in {askNow(questions, [active |-> activeQuestions, tasks |-> tasks],
                    call.question,
                    IF call.form = "options" THEN call.data ELSE Undefined,
                    IF call.form = "options" THEN call.userId ELSE Undefined)} :
     /\ activeQuestions' = d.active
     /\ tasks' = d.tasks
     /\ last' = Did("ask", "promise",
                    Replaced(getActiveQuestion(activeQuestions,
                               IF call.form = "options" THEN call.userId ELSE Undefined),
                             call.question,
                             IF call.form = "options" THEN call.userId ELSE Undefined),
                    <<>>, <<>>, NotSettled)
     /\ UNCHANGED <<slotTypes, intentNames, intents, matchers, questions,
                    notFoundCallback>>

\* The call handleCommand(command).
CommandCall(command) ==
  [form |-> "command", command |-> command, data |-> Undefined, userId |-> Undefined]

Resolved(value) == [state |-> "resolved", value |-> value]
Rejected(value) == [state |-> "rejected", value |-> value]

\* Question.answer(answer, data): the call it makes on the question's engine.
AnswerCall(answer, data) ==
  IF data = Undefined
  THEN [form |-> "command", command |-> answer, data |-> Undefined, userId |-> Undefined]
  ELSE [form |-> "data", command |-> answer, data |-> data, userId |-> Undefined]

\* handleQuestionAnswer up to the delay inside the question's engine: the user's
\* question is finished, then Question.answer calls handleCommand on its engine.
\* When the question is an inherited function, question.answer is not a
\* function and the delayed callback throws after finishQuestion.
handleQuestionAnswer(task, checked) ==
  \E question \in {getActiveQuestion(activeQuestions, task.userId)} :
  \E data \in {OrElse(task.data, task.userId)} :
  \E o \in {HandleOverload(AnswerCall(task.command, data))} :
     /\ activeQuestions' = finishQuestion(activeQuestions, task.userId)
     /\ IF IsFunction(question) \/ o.threw
        THEN /\ tasks' = Tail(tasks)
             /\ last' = Did("tick", "threw", task, <<>>, checked, NotSettled)
        ELSE /\ tasks' = delay(Tail(tasks),
                   [NoTask EXCEPT !.kind = "answer", !.question = question,
                                  !.command = cleanCommand(o.command),
                                  !.data = o.data, !.answerData = data,
                                  !.userId = task.userId, !.asked = task.asked])
             /\ last' = Did("tick", "void", task, <<>>, checked, NotSettled)

\* A variant that looks for a pending question before the result of the scan.
OutcomeQuestionFirst(found, question) ==
  IF question # Undefined THEN "question"
  ELSE IF found THEN "intent"
  ELSE "notFound"

\* The branch the delayed callback takes after handleNormalCommand: resolve for
\* the matched intent, else hand the command to the user's active question,
\* else call the not-found handler and reject.
Outcome(found, question) ==
  IF found THEN "intent"
  ELSE IF question # Undefined THEN "question"
  ELSE "notFound"

\* The delayed callback of handleCommand.
TickCommand ==
  /\ tasks # <<>>
  /\ Head(tasks).kind = "command"
  /\ \E task \in {Head(tasks)} :
     \E commandResult \in {handleNormalCommand(slotTypes, matchers, task.data,
                                                task.command)} :
        IF commandResult.threw
        THEN /\ tasks' = Tail(tasks)
             /\ last' = Did("tick", "threw", task, commandResult.fired,
                            commandResult.checked, NotSettled)
             /\ UNCHANGED activeQuestions
        ELSE \E outcome \in {Outcome(commandResult.found,
                                      getActiveQuestion(activeQuestions, task.userId))} :
        IF outcome = "intent"
        THEN /\ tasks' = Tail(tasks)
             /\ last' = Did("tick", "void", task, commandResult.fired,
                            commandResult.checked, Resolved(commandResult.foundMatch))
             /\ UNCHANGED activeQuestions
        ELSE IF outcome = "question"
        THEN handleQuestionAnswer(task, commandResult.checked)
        ELSE /\ tasks' = Tail(tasks)
             /\ last' = Did("tick", "void", task,
                            IF notFoundCallback
                            THEN <<[cb |-> "notFound", name |-> "", args |-> <<task.data>>]>>
                            ELSE <<>>,
                            commandResult.checked, Rejected(Undefined))
             /\ UNCHANGED activeQuestions
  /\ UNCHANGED <<slotTypes, intentNames, intents, matchers, questions, notFoundCallback>>

\* The delayed callback of the handleCommand a Question made on its own engine.
\* A success or cancel callback runs inside it.  It settles the promise of that
\* call, which queues the first promise job of the chain Question.answer and
\* handleQuestionAnswer hung on it; the promise of the user's command stays
\* pending.  An exception in the callback leaves the chain unsettled.
TickAnswer ==
  /\ tasks # <<>>
  /\ Head(tasks).kind = "answer"
  /\ \E task \in {Head(tasks)} :
     \E question \in {task.question} :
     \E commandResult \in {handleNormalCommand(slotTypes, question.nlc.matchers,
                                                task.data, task.command)} :
     \E after \in {RunCallbacks(questions, [active |-> activeQuestions, tasks |-> <<>>],
                                 question, commandResult.fired, 1)} :
        /\ activeQuestions' = after.active
        /\ IF commandResult.threw
           THEN /\ tasks' = Tail(tasks) \o after.tasks
                /\ last' = Did("tick", "threw", task, commandResult.fired,
                               commandResult.checked, NotSettled)
           ELSE \E n \in JobSlots(tasks) :
                /\ tasks' = QueueJob(tasks, n,
                               [task EXCEPT !.kind = IF commandResult.found
                                                     THEN "fulfilled" ELSE "failed",
                                            !.invoked = commandResult.fired,
                                            !.scanned = commandResult.checked],
                               after.tasks)
                /\ last' = Did("tick", "void", task, commandResult.fired,
                               commandResult.checked, NotSettled)
  /\ UNCHANGED <<slotTypes, intentNames, intents, matchers, questions, notFoundCallback>>

\* A promise job that passes a settled promise on: the catch of Question.answer
\* for a fulfilled promise, the then of handleQuestionAnswer for a rejected one.
\* It settles the next promise of the chain, which queues the next job.
TickPass ==
  /\ tasks # <<>>
  /\ Head(tasks).kind \in {"fulfilled", "rethrown"}
  /\ \E task \in {Head(tasks)} :
     \E n \in JobSlots(tasks) :
        /\ tasks' = QueueJob(tasks, n,
                       [task EXCEPT !.kind = IF task.kind = "fulfilled"
                                             THEN "answered" ELSE "rejecting"],
                       <<>>)
        /\ last' = Did("tick", "void", task, <<>>, <<>>, NotSettled)
  /\ UNCHANGED <<slotTypes, intentNames, intents, matchers, questions, activeQuestions,
                 notFoundCallback>>

\* The then of handleQuestionAnswer: the answer matched, the promise of the
\* user's command is resolved with the question's name.
TickAnswered ==
  /\ tasks # <<>>
  /\ Head(tasks).kind = "answered"
  /\ \E task \in {Head(tasks)} :
        /\ tasks' = Tail(tasks)
        /\ last' = Did("tick", "void", task, <<>>, <<>>,
                       Resolved(Str(<<task.question.name>>)))
  /\ UNCHANGED <<slotTypes, intentNames, intents, matchers, questions, activeQuestions,
                 notFoundCallback>>

\* The catch of Question.answer: nothing matched the answer, so the fail
\* callback is invoked, and the error is thrown on to the next promise.
TickFailed ==
  /\ tasks # <<>>
  /\ Head(tasks).kind = "failed"
  /\ \E task \in {Head(tasks)} :
     \E failed \in {<<[cb |-> "fail", name |-> task.question.name,
                        args |-> <<task.answerData>>]>>} :
     \E after \in {RunCallbacks(questions, [active |-> activeQuestions, tasks |-> <<>>],
                                 task.question, failed, 1)} :
     \E n \in JobSlots(tasks) :
        /\ activeQuestions' = after.active
        /\ tasks' = QueueJob(tasks, n,
                       [task EXCEPT !.kind = "rethrown",
                                    !.invoked = task.invoked \o failed],
                       after.tasks)
        /\ last' = Did("tick", "void", task, failed, <<>>, NotSettled)
  /\ UNCHANGED <<slotTypes, intentNames, intents, matchers, questions, notFoundCallback>>

\* The catch of handleQuestionAnswer: the user's question is finished again
\* and the promise of the user's command is rejected with the question's name.
TickRejected ==
  /\ tasks # <<>>
  /\ Head(tasks).kind = "rejecting"
  /\ \E task \in {Head(tasks)} :
        /\ activeQuestions' = finishQuestion(activeQuestions, task.userId)
        /\ tasks' = Tail(tasks)
        /\ last' = Did("tick", "void", task, <<>>, <<>>,
                       Rejected(Str(<<task.question.name>>)))
  /\ UNCHANGED <<slotTypes, intentNames, intents, matchers, questions, notFoundCallback>>

True == [t |-> "boolean", v |-> <<"true">>]
False == [t |-> "boolean", v |-> <<"false">>]

\* The delayed callback of ask.  When the question is an inherited function,
\* question.ask is not a function: the callback throws and settles nothing.
TickAsk ==
  /\ tasks # <<>>
  /\ Head(tasks).kind = "ask"
  /\ \E task \in {Head(tasks)} :
     /\ tasks' = Tail(tasks)
     /\ last' = IF IsFunction(task.question)
                THEN Did("tick", "threw", task, <<>>, <<>>, NotSettled)
                ELSE IF task.question # Undefined
                THEN Did("tick", "void", task,
                         <<[cb |-> "question", name |-> task.question.name,
                            args |-> <<task.data>>]>>, <<>>, Resolved(True))
                ELSE Did("tick", "void", task, <<>>, <<>>, Rejected(False))
  /\ UNCHANGED <<slotTypes, intentNames, intents, matchers, questions, activeQuestions,
                 notFoundCallback>>

\* The state after the constructor.
Init ==
  /\ slotTypes = EmptyMapping
  /\ intentNames = <<>>
  /\ intents = <<>>
  /\ matchers = <<>>
  /\ questions = EmptyMapping
  /\ activeQuestions = EmptyMapping
  /\ notFoundCallback = FALSE
  /\ tasks = <<>>
  /\ last = Returned("constructor", "void")

(***************************************************************************)
(* The dispatcher: slot types, intents, added utterances and commands of a *)
(* client whose intents overlap, so that priority and slot order show.     *)
(***************************************************************************)
\* A custom slot type without a baseMatcher that looks for the word "first".
Slot_FIRST ==
  [type |-> "FIRST", kind |-> "string", fn |-> "", list |-> << <<"first">> >>,
   baseMatcher |-> ""]

IntentCallback(name) == [cb |-> "intent", name |-> name]

Intent_ORDER ==
  [intent |-> "ORDER",
   slots |-> <<[name |-> "A", type |-> "STRING"], [name |-> "B", type |-> "STRING"]>>,
   utterances |-> << <<Ph("B"), Lit("then"), Ph("A")>> >>,
   callback |-> IntentCallback("ORDER")]

Intent_GUESS ==
  [intent |-> "GUESS",
   slots |-> <<[name |-> "F", type |-> "FIRST"]>>,
   utterances |-> << <<Lit("say"), Ph("F")>> >>,
   callback |-> IntentCallback("GUESS")]

Intent_ECHO ==
  [intent |-> "ECHO",
   slots |-> <<[name |-> "S", type |-> "STRING"]>>,
   utterances |-> << <<Lit("say"), Ph("S")>> >>,
   callback |-> IntentCallback("ECHO")]

Intent_ANY ==
  [intent |-> "ANY",
   slots |-> <<[name |-> "S", type |-> "STRING"]>>,
   utterances |-> << <<Ph("S")>> >>,
   callback |-> IntentCallback("ANY")]

DispatchSlotTypes == {Slot_STRING, Slot_FIRST}
DispatchIntents == {Intent_ORDER, Intent_GUESS, Intent_ECHO, Intent_ANY}
DispatchUtterances == {[intent |-> "ORDER", utterance |-> <<Lit("say"), Ph("A")>>]}
DispatchCommands ==
  {<<"say", "first">>, <<"say", "bad">>, <<"x", "then", "y">>, <<"bad">>}

\* The client registers at most MaxIntents intents and waits for the engine
\* while MaxTasks delayed callbacks are outstanding.
MaxIntents == 3
MaxTasks == 1

Next ==
  \/ \E slotType \in DispatchSlotTypes : AddSlotType(slotType)
  \/ \E intent \in DispatchIntents :
       Len(intents) < MaxIntents /\ RegisterIntent(intent)
  \/ \E u \in DispatchUtterances : AddUtterance(u.intent, u.utterance)
  \/ \E c \in DispatchCommands :
       Len(tasks) < MaxTasks /\ HandleCommand(CommandCall(c))
  \/ \E c \in DispatchCommands, d \in {Obj("ctx"), Num("0")} :
       /\ Len(tasks) < MaxTasks
       /\ HandleCommand([form |-> "data", command |-> c, data |-> d,
                         userId |-> Undefined])
  \/ TickCommand

Spec == Init /\ [][Next]_vars

(***************************************************************************)
(* Properties of the dispatcher.                                           *)
(***************************************************************************)
\* The last operation was the delayed callback of a handleCommand on this engine.
CommandTick == last.op = "tick" /\ last.task.kind = "command"

\* The slot values an intent callback received: its arguments without the
\* context datum that precedes them when one was passed on.
SlotValues(fired) == IF Truthy(last.task.data) THEN Tail(fired.args) ELSE fired.args

\* Placeholder j of a matcher is the last one for its slot name.
LastForName(matcher, j) ==
  \A k \in (j + 1)..Len(matcher.slotMapping) :
     matcher.slotMapping[k].name # matcher.slotMapping[j].name

\* The values are those of the matcher's placeholders against the command, each
\* at the position its slot has in the intent's declared slot list.
InDeclaredOrder(matcher, command, values) ==
  LET matches == RegExpMatch(matcher.regExp, command) IN
  /\ matches.ok
  /\ Len(values) = Len(matcher.slots)
  /\ \A j \in 1..Len(matcher.slotMapping) :
       LastForName(matcher, j) =>
         \A i \in 1..Len(matcher.slots) :
            matcher.slots[i].name = matcher.slotMapping[j].name =>
              values[i] = checkSlotMatch(matches.caps[j],
                                         slotTypes[matcher.slotMapping[j].type])

\* C1: whenever a command matched an utterance of an intent, the intent's
\* callback received the slot values in the order the intent declares its
\* slots, whatever the order of the placeholders in the utterance.
C1_DeclaredSlotOrder ==
  CommandTick =>
    \A p \in 1..Len(last.fired) :
       last.fired[p].cb = "intent" =>
         \E k \in 1..Len(last.checked) :
            /\ matchers[last.checked[k]].intent = last.fired[p].name
            /\ InDeclaredOrder(matchers[last.checked[k]], last.task.command,
                               SlotValues(last.fired[p]))

\* "x then y" matched "{B} then {A}" of ORDER, which declares A before B.
C1_Witness ==
  /\ CommandTick
  /\ last.task.command = <<"x", "then", "y">>
  /\ \E p \in 1..Len(last.fired) :
       /\ last.fired[p].name = "ORDER"
       /\ SlotValues(last.fired[p]) = <<Str(<<"y">>), Str(<<"x">>)>>

\* Matcher i accepts the command: its pattern matches and its slots all pass.
Accepts(i, command) == check(slotTypes, matchers[i], command).matched

\* Matcher i ends the scan: it accepts and is not a bare single-slot placeholder.
EndsScan(i, command) ==
  Accepts(i, command) /\ ~IsBareSlot(matchers[i].originalUtterance)

\* The matchers the scan of a command reaches: all up to the first that ends it.
Reached(command) ==
  {i \in 1..Len(matchers) : \A k \in 1..(i - 1) : ~EndsScan(k, command)}

Indices(n) == [i \in 1..n |-> i]

\* C2: matchers are kept in the order they were registered, an added utterance
\* last; the scan of a command evaluates them in that order, skips those that
\* do not accept, invokes the callbacks of those that accept, and evaluates
\* nothing after the first accepting matcher that is not a bare placeholder.
C2_RegistrationOrderFirstMatch ==
  /\ [](CommandTick /\ last.ret # "threw" =>
          LET command == last.task.command
              hits == SelectSeq(Indices(Cardinality(Reached(command))),
                                LAMBDA i : Accepts(i, command))
          IN /\ last.checked = Indices(Cardinality(Reached(command)))
             /\ hits # <<>> =>
                  /\ Len(last.fired) = Len(hits)
                  /\ \A p \in 1..Len(hits) :
                       last.fired[p] =
                         [cb |-> "intent", name |-> matchers[hits[p]].intent,
                          args |-> last.fired[p].args]
                  /\ last.settled.state = "resolved")
  /\ [][/\ Len(matchers') >= Len(matchers)
        /\ SubSeq(matchers', 1, Len(matchers)) = matchers
        /\ last'.op = "addUtterance" /\ last'.ret = "true" =>
             /\ Len(matchers') = Len(matchers) + 1
             /\ \E u \in DispatchUtterances :
                  /\ matchers'[Len(matchers')].intent = u.intent
                  /\ matchers'[Len(matchers')].originalUtterance = u.utterance]_vars

\* "say bad": the first matcher's pattern matched but its slot failed, the
\* second was dispatched to, and a later matcher that accepts was not evaluated.
C2_Witness ==
  /\ CommandTick
  /\ last.checked = <<1, 2>>
  /\ Len(last.fired) = 1
  /\ RegExpMatch(matchers[1].regExp, last.task.command).ok
  /\ ~Accepts(1, last.task.command)
  /\ \E i \in 3..Len(matchers) :
       /\ Accepts(i, last.task.command)
       /\ matchers[i].originalUtterance = <<Lit("say"), Ph("A")>>

\* C3: the future of handleCommand resolves to the name of the matched intent
\* when an ordinary intent matches, and rejects when no intent matches and the
\* commanding user has no pending question.
C3_ResolvesToIntentName ==
  CommandTick /\ last.ret # "threw" =>
    LET command == last.task.command
        hits == {i \in Reached(command) : Accepts(i, command)}
    IN /\ hits # {} =>
            \E i \in hits : last.settled = Resolved(Str(<<matchers[i].intent>>))
       /\ hits = {} /\ getActiveQuestion(activeQuestions, last.task.userId) = Undefined =>
            last.settled.state = "rejected"

(***************************************************************************)
(* The dialog: a client with four questions, one ordinary intent and two   *)
(* users (the anonymous one and user "1").                                 *)
(***************************************************************************)
\* Asks for a number; its callbacks ask nothing.
Question_QUESTION ==
  [name |-> "QUESTION", slotType |-> "NUMBER", hasUtterances |-> FALSE,
   utterances |-> <<>>, cancel |-> TRUE,
   successAsks |-> "", failAsks |-> "", cancelAsks |-> ""]

\* Asks for a number; its success callback goes on to ask QUESTION.
Question_FIRST_QUESTION ==
  [name |-> "FIRST_QUESTION", slotType |-> "NUMBER", hasUtterances |-> FALSE,
   utterances |-> <<>>, cancel |-> TRUE,
   successAsks |-> "QUESTION", failAsks |-> "", cancelAsks |-> ""]

\* A question of the client that asks for a number; its fail callback asks the
\* same question again.
Question_RETRY ==
  [name |-> "RETRY", slotType |-> "NUMBER", hasUtterances |-> FALSE,
   utterances |-> <<>>, cancel |-> TRUE,
   successAsks |-> "", failAsks |-> "RETRY", cancelAsks |-> ""]

\* A question of the client that asks for free text.
Question_NOTE ==
  [name |-> "NOTE", slotType |-> "STRING", hasUtterances |-> FALSE,
   utterances |-> <<>>, cancel |-> TRUE,
   successAsks |-> "", failAsks |-> "", cancelAsks |-> ""]

Intent_OTHER ==
  [intent |-> "OTHER", slots |-> <<>>, utterances |-> << <<Lit("10")>> >>,
   callback |-> IntentCallback("OTHER")]

USER_ID == Str(<<"1">>)

DialogSlotTypes == {Slot_NUMBER, Slot_STRING, Slot_NEVERMIND}
DialogQuestions ==
  {Question_QUESTION, Question_FIRST_QUESTION, Question_RETRY, Question_NOTE}
DialogUsers == {Undefined, USER_ID}
DialogCommands == {<<"10">>, <<"bad">>, <<"nevermind">>, <<>>}
DialogData == {Undefined, Num("0"), Obj("ctx")}

\* The client's setup, run on the state after the constructor: addSlotType for
\* each slot type, then registerQuestion for each question.
DialogSetupSlotTypes ==
  [n \in {slotType.type : slotType \in DialogSlotTypes} |->
     LowerCasedMatcher(CHOOSE slotType \in DialogSlotTypes : slotType.type = n)]

DialogSetupQuestions ==
  [n \in {questionData.name : questionData \in DialogQuestions} |->
     NewQuestion(DialogSetupSlotTypes,
                 CHOOSE questionData \in DialogQuestions : questionData.name = n).question]

InitDialog ==
  /\ slotTypes = DialogSetupSlotTypes
  /\ intentNames = <<"QUESTION", "FIRST_QUESTION", "RETRY", "NOTE">>
  /\ intents = <<>>
  /\ matchers = <<>>
  /\ questions = DialogSetupQuestions
  /\ activeQuestions = EmptyMapping
  /\ notFoundCallback = FALSE
  /\ tasks = <<>>
  /\ last = Named("registerQuestion", "true", "NOTE")

NextDialog ==
  \/ \E slotTypeName \in {"STRING", "NEVERMIND"} : RemoveSlotType(slotTypeName)
  \/ RegisterIntent(Intent_OTHER)
  \/ \E n \in {q.name : q \in DialogQuestions} \cup {"constructor"} :
       /\ Len(tasks) < MaxTasks
       /\ Ask([form |-> "name", question |-> n, data |-> Undefined,
               userId |-> Undefined])
  \/ \E q \in DialogQuestions :
       /\ Len(tasks) < MaxTasks
       /\ Ask([form |-> "options", question |-> q.name, data |-> Undefined,
               userId |-> USER_ID])
  \/ \E c \in DialogCommands, d \in DialogData, u \in DialogUsers :
       /\ Len(tasks) < MaxTasks
       /\ HandleCommand([form |-> "options", command |-> c, data |-> d, userId |-> u])
  \/ TickCommand
  \/ TickAnswer
  \/ TickPass
  \/ TickAnswered
  \/ TickFailed
  \/ TickRejected
  \/ TickAsk

SpecDialog == InitDialog /\ [][NextDialog]_vars

(***************************************************************************)
(* Properties of the dialog.                                               *)
(***************************************************************************)
\* The last operation was the delayed callback a question's engine ran for the
\* command a user answered with: the answer was evaluated.
AnswerTick == last.op = "tick" /\ last.task.kind = "answer"

\* The last operation ended the processing of an answer: it settled the promise
\* of the user's command, or it was the delayed callback and threw.
AnswerDone ==
  /\ last.op = "tick"
  /\ \/ last.task.kind \in {"answered", "rejecting"}
     \/ last.task.kind = "answer" /\ last.ret = "threw"

\* The callbacks invoked and the matchers checked for the command of the last
\* operation, by the steps before it and by itself.
AllFired == last.task.invoked \o last.fired
AllChecked == last.task.scanned \o last.checked

\* The text is accepted by the slot type of that name: the type is registered,
\* its capture pattern takes the text and its matcher gives it a value.
AcceptedBy(slotTypeName, text) ==
  /\ slotTypeName \in DOMAIN slotTypes
  /\ GroupAccepts(IF slotTypes[slotTypeName].baseMatcher # ""
                  THEN slotTypes[slotTypeName].baseMatcher ELSE ".+", text)
  /\ checkSlotMatch(text, slotTypes[slotTypeName]) \notin {Undefined, Str(<<>>)}

\* What precedes the slot value in the arguments of a question's callback: the
\* context datum, or the user id when no datum was given, if either is present.
Preceding(asked) ==
  IF asked.data # Undefined THEN <<asked.data>>
  ELSE IF asked.userId # Undefined THEN <<asked.userId>>
  ELSE <<>>

\* The callback cb of the question was invoked with these arguments.
Invoked(cb, question, args) ==
  \E p \in 1..Len(AllFired) :
     AllFired[p] = [cb |-> cb, name |-> question.name, args |-> args]

\* How often the callback cb of the question was invoked for the command.
Invocations(cb, question) ==
  Cardinality({p \in 1..Len(AllFired) :
                 AllFired[p].cb = cb /\ AllFired[p].name = question.name})

\* C4: when a user's command reached the user's pending question and its text
\* is accepted by the question's slot type, then, when the processing of the
\* answer has ended, the success callback was invoked with the transformed
\* value, preceded by the context datum or else the user id when there is one,
\* and the future resolved with the question's name.
C4_AnswerAccepted ==
  AnswerDone /\ AcceptedBy(last.task.question.questionData.slotType,
                           last.task.asked.command) =>
    /\ Invoked("success", last.task.question,
               Preceding(last.task.asked)
                 \o <<checkSlotMatch(last.task.asked.command,
                                     slotTypes[last.task.question.questionData.slotType])>>)
    /\ last.settled = Resolved(Str(<<last.task.question.name>>))

\* No matcher of the question accepts the text.
RejectedBy(question, text) ==
  \A i \in 1..Len(question.nlc.matchers) :
     /\ ~check(slotTypes, question.nlc.matchers[i], text).threw
     /\ ~check(slotTypes, question.nlc.matchers[i], text).matched

\* C5: when a user's command reached the user's pending question and matches
\* none of the question's matchers, then, when the processing of the answer has
\* ended, the fail callback was invoked exactly once, no other callback of the
\* question was, and the future rejected with the question's name.
C5_AnswerRejected ==
  AnswerDone /\ RejectedBy(last.task.question, last.task.asked.command) =>
    /\ Invocations("fail", last.task.question) = 1
    /\ Len(AllFired) = 1
    /\ last.settled = Rejected(Str(<<last.task.question.name>>))

\* C6: when a user's command reached a pending question registered with a
\* cancel callback and its text is a cancellation phrase, the cancel intent was
\* evaluated first, the cancel callback was invoked and the future resolved
\* with the question's name.
C6_CancelFirst ==
  /\ AnswerDone
  /\ last.task.question.questionData.cancel
  /\ AcceptedBy("NEVERMIND", last.task.asked.command)
  => /\ AllChecked # <<>>
     /\ AllChecked[1] = 1
     /\ last.task.question.nlc.matchers[1].intent = "CANCEL"
     /\ Len(AllFired) >= 1
     /\ AllFired[1].cb = "cancel"
     /\ AllFired[1].name = last.task.question.name
     /\ last.settled = Resolved(Str(<<last.task.question.name>>))

\* The last operation was the delayed callback of a handleCommand that found no
\* intent and handed the command to the user's pending question.
HandedToQuestion ==
  CommandTick /\ last.ret = "void" /\ last.settled.state = "pending"

\* The key a user id stands for: the anonymous key when there is no user id.
KeyOf(userId) == IF userId = Undefined THEN ANONYMOUS ELSE userId.v

\* The question pending under a key, Undefined when there is none.
PendingFor(active, k) == IF k \in DOMAIN active THEN active[k] ELSE Undefined

\* C7: a user's pending question is cleared when the command is handed to it,
\* before the answer is evaluated; the answer is evaluated against the question
\* that was pending; and when the success callback of a question asks a second
\* question for the same user, the second is that user's pending question once
\* the answer has been evaluated; the promise jobs that follow leave it in
\* place.  The success callback calls ask(name), which asks for the anonymous
\* user, so the same user is the anonymous one.
C7_NestedQuestion ==
  /\ [](HandedToQuestion =>
          PendingFor(activeQuestions, KeyOf(last.task.userId)) = Undefined)
  /\ [](AnswerTick =>
          \A name \in DOMAIN questions :
             /\ Invocations("success", last.task.question) >= 1
             /\ last.task.question.questionData.successAsks = name
             /\ KeyOf(last.task.userId) = ANONYMOUS
             => PendingFor(activeQuestions, KeyOf(last.task.userId)) = questions[name])
  /\ [][(last'.op = "tick" /\ last'.task.kind = "command" /\ last'.ret = "void"
           /\ last'.settled.state = "pending") =>
          /\ tasks' # <<>>
          /\ tasks'[Len(tasks')].kind = "answer"
          /\ tasks'[Len(tasks')].question =
               PendingFor(activeQuestions, KeyOf(last'.task.userId))]_vars
  /\ [][(last'.op = "tick" /\ last'.task.kind \in {"fulfilled", "answered"}) =>
          activeQuestions' = activeQuestions]_vars

\* The anonymous user's answer to FIRST_QUESTION was accepted, its success
\* callback asked QUESTION, and QUESTION is now pending for the anonymous user.
C7_Witness ==
  /\ AnswerTick
  /\ last.task.userId = Undefined
  /\ last.task.question.name = "FIRST_QUESTION"
  /\ Invocations("success", last.task.question) = 1
  /\ PendingFor(activeQuestions, KeyOf(last.task.userId)) # Undefined
  /\ PendingFor(activeQuestions, KeyOf(last.task.userId)).name = "QUESTION"

\* The promise jobs that wait in a queue.
JobsIn(queue) ==
  {i \in 1..Len(queue) :
     queue[i].kind \in {"fulfilled", "answered", "failed", "rethrown", "rejecting"}}

\* The delayed callbacks scheduled by the step: what it left at the end of the
\* queue, the promise job it queued not counted.
Scheduled ==
  IF last'.op = "tick"
  THEN SubSeq(tasks',
              Len(tasks) + Cardinality(JobsIn(tasks')) - Cardinality(JobsIn(Tail(tasks))),
              Len(tasks'))
  ELSE SubSeq(tasks', Len(tasks) + 1, Len(tasks'))

\* C8: the steps that process a command leave the questions pending for every
\* other user key as they are, unless a callback of the client asked a question
\* for that key; the command is handed only to the question pending for the key
\* it carries; and the callbacks of a question are invoked only by the steps
\* that process the answer handed to it.
C8_OnlyTheSameUser ==
  [][last'.op = "tick" /\ last'.task.kind # "ask" =>
       /\ \A k \in DOMAIN activeQuestions :
            k # KeyOf(last'.task.userId) =>
              \/ PendingFor(activeQuestions', k) = activeQuestions[k]
              \/ \E n \in 1..Len(Scheduled) :
                    /\ Scheduled[n].kind = "ask"
                    /\ KeyOf(Scheduled[n].userId) = k
                    /\ PendingFor(activeQuestions', k) = Scheduled[n].question
       /\ \A p \in 1..Len(last'.fired) :
            last'.fired[p].cb \in {"success", "fail", "cancel"} =>
              /\ last'.task.kind \in {"answer", "failed"}
              /\ last'.fired[p].name = last'.task.question.name
       /\ (last'.task.kind = "command" /\ Len(tasks') >= Len(tasks)) =>
            /\ tasks'[Len(tasks')].kind = "answer"
            /\ tasks'[Len(tasks')].userId = last'.task.userId
            /\ PendingFor(activeQuestions, KeyOf(last'.task.userId)) # Undefined
            /\ tasks'[Len(tasks')].question =
                 PendingFor(activeQuestions, KeyOf(last'.task.userId))]_vars

\* A command without a user id found no intent and was rejected while a
\* question that accepts its text is pending for user "1", and still is.
C8_Witness ==
  /\ CommandTick
  /\ last.task.userId = Undefined
  /\ last.settled.state = "rejected"
  /\ PendingFor(activeQuestions, <<"1">>) # Undefined
  /\ AcceptedBy(PendingFor(activeQuestions, <<"1">>).questionData.slotType,
                last.task.command)

\* C9: a command that an ordinary intent accepts is dispatched to the intent,
\* whether or not a question is pending for the user: intent callbacks only,
\* the future resolves for the intent, nothing is handed to a question and no
\* pending question changes.
C9_IntentBeforeQuestion ==
  [][(/\ last'.op = "tick"
      /\ last'.task.kind = "command"
      /\ \E i \in 1..Len(matchers) : Accepts(i, last'.task.command)) =>
       /\ last'.fired # <<>>
       /\ \A p \in 1..Len(last'.fired) : last'.fired[p].cb = "intent"
       /\ last'.settled.state = "resolved"
       /\ last'.settled.value.intent = last'.fired[Len(last'.fired)].name
       /\ tasks' = Tail(tasks)
       /\ activeQuestions' = activeQuestions]_vars

\* "10" was dispatched to OTHER while a question that accepts "10" is pending for
\* the user who sent it.
C9_Witness ==
  /\ CommandTick
  /\ Len(last.fired) = 1
  /\ last.fired[1].name = "OTHER"
  /\ PendingFor(activeQuestions, KeyOf(last.task.userId)) # Undefined
  /\ ~IsFunction(PendingFor(activeQuestions, KeyOf(last.task.userId)))
  /\ AcceptedBy(PendingFor(activeQuestions, KeyOf(last.task.userId)).questionData.slotType,
                last.task.command)

\* C10: a pending question stops being pending for its key only when a command
\* of that user is handed to it or an ask for the same key replaces it, and a
\* question an ask made pending is pending when the operation ends unless a
\* later ask for the same key replaced it.
C10_PendingUntilAnswered ==
  [][/\ \A k \in DOMAIN activeQuestions :
          (activeQuestions[k] # Undefined
             /\ PendingFor(activeQuestions', k) # activeQuestions[k]) =>
            \/ /\ last'.op = "tick"
               /\ last'.task.kind = "command"
               /\ KeyOf(last'.task.userId) = k
               /\ last'.settled.state = "pending"
            \/ /\ PendingFor(activeQuestions', k) # Undefined
               /\ \E n \in 1..Len(Scheduled) :
                    /\ Scheduled[n].kind = "ask"
                    /\ KeyOf(Scheduled[n].userId) = k
     /\ \A n \in 1..Len(Scheduled) :
          (/\ Scheduled[n].kind = "ask"
           /\ Scheduled[n].question # Undefined
           /\ \A m \in (n + 1)..Len(Scheduled) :
                ~(Scheduled[m].kind = "ask" /\ Scheduled[m].question # Undefined
                    /\ KeyOf(Scheduled[m].userId) = KeyOf(Scheduled[n].userId)))
          => PendingFor(activeQuestions', KeyOf(Scheduled[n].userId))
               = Scheduled[n].question]_vars

(***************************************************************************)
(* The life of a pending question.                                         *)
(***************************************************************************)
\* The step is a delayed callback that ends the processing of a user's command:
\* handleCommand's own when it does not hand the command to a question, or the
\* one of the question's engine the command was handed to.
EndsCommand ==
  /\ last'.op = "tick"
  /\ \/ last'.task.kind \in {"answered", "rejecting"}
     \/ last'.task.kind = "answer" /\ last'.ret = "threw"
     \/ last'.task.kind = "command" /\ last'.settled.state # "pending"

\* A callback invoked in the step called ask.
AskedAgain ==
  \E n \in 1..Len(Scheduled) : Scheduled[n].kind = "ask"

\* A callback invoked for the command, in this step or an earlier one, is one
\* that calls ask.
AskedOnTheWay ==
  \/ AskedAgain
  \/ \E p \in 1..Len(last'.task.invoked) :
        AsksAgain(last'.task.question, last'.task.invoked[p].cb) # ""

\* C11 as stated: when the processing of a user's command ends, and the user
\* had a pending question when the command's delayed callback began, the user
\* has no pending question unless a callback run on the way called ask again.
C11_ConsumedByNextCommand ==
  [][(/\ EndsCommand
      /\ \/ last'.task.kind # "command"
         \/ PendingFor(activeQuestions, KeyOf(last'.task.userId)) # Undefined)
     => \/ PendingFor(activeQuestions', KeyOf(last'.task.userId)) = Undefined
        \/ AskedOnTheWay]_vars

\* C11, amended: a command that matches an ordinary intent leaves the user's
\* question pending; a command that matches none is handed to the question,
\* which is cleared in that step, and no later step that processes the answer
\* gives the user a pending question unless a callback it invokes asks one.
C11_ConsumedUnlessIntentMatched ==
  [][/\ (last'.op = "tick" /\ last'.task.kind = "command") =>
          IF \E i \in 1..Len(matchers) : Accepts(i, last'.task.command)
          THEN activeQuestions' = activeQuestions
          ELSE PendingFor(activeQuestions', KeyOf(last'.task.userId)) = Undefined
     /\ (last'.op = "tick" /\ last'.task.kind \notin {"command", "ask"}) =>
          \/ PendingFor(activeQuestions', KeyOf(last'.task.userId)) = Undefined
          \/ AskedAgain
          \/ PendingFor(activeQuestions, KeyOf(last'.task.userId)) # Undefined]_vars

\* A command that no intent matched was handed to the user's pending question
\* and answered it; nothing asked again and the user has no pending question.
C11_Witness ==
  /\ AnswerDone
  /\ Invocations("success", last.task.question) = 1
  /\ AsksAgain(last.task.question, "success") = ""
  /\ PendingFor(activeQuestions, KeyOf(last.task.userId)) = Undefined

\* C12: a user key has one question pending or none (or the inherited member
\* that ask found under a name of Object.prototype); ask for a registered
\* question makes it the pending question of its user key, in place of the one
\* that was pending, and leaves the other keys alone; ask for a name that is
\* not registered changes nothing; and the callbacks invoked for an answer are
\* those of the question that was pending when the command was handed over.
C12_OnePendingQuestionPerUser ==
  /\ [](\A k \in DOMAIN activeQuestions :
          \/ activeQuestions[k] = Undefined
          \/ IsFunction(activeQuestions[k])
          \/ \E q \in DialogQuestions : activeQuestions[k] = DialogSetupQuestions[q.name])
  /\ [][last'.op = "ask" =>
          /\ Len(Scheduled) = 1
          /\ Scheduled[1].kind = "ask"
          /\ IF Scheduled[1].question = Undefined
             THEN activeQuestions' = activeQuestions
             ELSE /\ DOMAIN activeQuestions' =
                       DOMAIN activeQuestions \cup {KeyOf(Scheduled[1].userId)}
                  /\ \A k \in DOMAIN activeQuestions' :
                       activeQuestions'[k] =
                         IF k = KeyOf(Scheduled[1].userId)
                         THEN Scheduled[1].question
                         ELSE activeQuestions[k]]_vars
  /\ [][(last'.op = "tick" /\ last'.task.kind = "command" /\ Len(tasks') >= Len(tasks)) =>
          tasks'[Len(tasks')].question =
            PendingFor(activeQuestions, KeyOf(last'.task.userId))]_vars
  /\ []((last.op = "tick" /\ last.task.kind \notin {"command", "ask"}) =>
          \A p \in 1..Len(AllFired) : AllFired[p].name = last.task.question.name)

\* ask made QUESTION the pending question of a user for whom FIRST_QUESTION was
\* pending.
C12_Witness ==
  /\ last.op = "ask"
  /\ last.task.question # Undefined
  /\ ~IsFunction(last.task.question)
  /\ last.task.question.name = "FIRST_QUESTION"
  /\ PendingFor(activeQuestions, KeyOf(last.task.userId)) # Undefined
  /\ ~IsFunction(PendingFor(activeQuestions, KeyOf(last.task.userId)))
  /\ PendingFor(activeQuestions, KeyOf(last.task.userId)).name = "QUESTION"

(***************************************************************************)
(* Asking: the client of the dialog also registers a not-found callback,   *)
(* deregisters a question, asks by names it never registered and has a     *)
(* user whose id is "constructor".                                         *)
(***************************************************************************)
AskingQuestionNames == {"QUESTION", "MISSING"}

AskingAsks ==
  {[form |-> "name", question |-> n, data |-> Undefined, userId |-> Undefined] :
     n \in AskingQuestionNames \cup {"FIRST_QUESTION", "constructor"}}
  \cup {[form |-> "options", question |-> n, data |-> Undefined, userId |-> USER_ID] :
          n \in AskingQuestionNames}

AskingCalls ==
  {[form |-> "options", command |-> c, data |-> d, userId |-> u] :
     c \in {<<"10">>, <<"bad">>}, d \in DialogData,
     u \in DialogUsers \cup {Str(<<"constructor">>)}}

NextAsking ==
  \/ RegisterNotFound
  \/ RegisterIntent(Intent_OTHER)
  \/ \E questionName \in AskingQuestionNames : DeregisterQuestion(questionName)
  \/ \E call \in AskingAsks : Len(tasks) < MaxTasks /\ Ask(call)
  \/ \E call \in AskingCalls : Len(tasks) < MaxTasks /\ HandleCommand(call)
  \/ TickCommand
  \/ TickAnswer
  \/ TickPass
  \/ TickAnswered
  \/ TickFailed
  \/ TickRejected
  \/ TickAsk

SpecAsking == InitDialog /\ [][NextAsking]_vars

\* The last operation was the delayed callback of ask.
AskTick == last.op = "tick" /\ last.task.kind = "ask"

\* C13: ask looks its question up when it is called: under a registered name
\* it makes the question pending and its delayed callback invokes the question
\* callback once and resolves with true; under a name that is not registered
\* (never, or not any more) it leaves the pending questions as they are and its
\* delayed callback invokes nothing and rejects with false.  No other
\* operation invokes a question callback.
C13_AskTellsWhetherRegistered ==
  /\ [][last'.op = "ask" =>
          /\ Len(Scheduled) = 1
          /\ Scheduled[1].kind = "ask"
          /\ IF last'.task.command[1] \in DOMAIN questions
             THEN Scheduled[1].question = questions[last'.task.command[1]]
             ELSE /\ Scheduled[1].question = Undefined
                  /\ activeQuestions' = activeQuestions]_vars
  /\ [][(last'.op = "tick" /\ last'.task.kind = "ask") =>
          /\ last'.task = Head(tasks)
          /\ activeQuestions' = activeQuestions
          /\ IF last'.task.question # Undefined
             THEN /\ Len(last'.fired) = 1
                  /\ last'.fired[1].cb = "question"
                  /\ last'.fired[1].name = last'.task.question.name
                  /\ last'.settled = Resolved(True)
             ELSE /\ last'.fired = <<>>
                  /\ last'.settled = Rejected(False)]_vars
  /\ [](~AskTick => \A p \in 1..Len(last.fired) : last.fired[p].cb # "question")

\* The not-found callback was invoked with exactly these arguments, once.
NotFoundInvoked(fired, args) ==
  /\ Len(fired) = 1
  /\ fired[1] = [cb |-> "notFound", name |-> "", args |-> args]

\* C14: once a not-found callback is registered, the delayed callback of a
\* command invokes it, once and with the command's context datum, if no
\* ordinary intent matches the command and its user has no pending question,
\* and does not invoke it otherwise; evaluating an answer never invokes it.
C14_NotFoundCallback ==
  [][(last'.op = "tick" /\ notFoundCallback) =>
       IF /\ last'.task.kind = "command"
          /\ \A i \in 1..Len(matchers) : ~Accepts(i, last'.task.command)
          /\ PendingFor(activeQuestions, KeyOf(last'.task.userId)) = Undefined
       THEN NotFoundInvoked(last'.fired, <<last'.task.asked.data>>)
       ELSE \A p \in 1..Len(last'.fired) : last'.fired[p].cb # "notFound"]_vars

(***************************************************************************)
(* Scheduling and settlement.                                              *)
(***************************************************************************)
\* C15: when handleCommand or ask returns, no callback was invoked, no matcher
\* was evaluated and the returned future is not settled: the call left one
\* delayed callback behind, and callbacks are invoked and futures settled
\* only by delayed callbacks that an earlier step scheduled.  A question asked
\* from inside a callback is not put to the user in the same step either.
C15_NeverSynchronous ==
  /\ [](last.op \in {"handleCommand", "ask"} =>
          /\ last.fired = <<>>
          /\ last.checked = <<>>
          /\ last.settled = NotSettled)
  /\ [][(last'.op \in {"handleCommand", "ask"} /\ last'.ret = "promise") =>
          /\ Len(Scheduled) = 1
          /\ Scheduled[1].kind = (IF last'.op = "ask" THEN "ask" ELSE "command")]_vars
  /\ [][last'.op = "tick" =>
          /\ tasks # <<>>
          /\ last'.task = Head(tasks)]_vars
  /\ [](last.op # "tick" => last.fired = <<>> /\ last.settled = NotSettled)
  /\ []((last.op = "tick" /\ last.task.kind # "ask") =>
          \A p \in 1..Len(last.fired) : last.fired[p].cb # "question")

\* handleCommand has returned for a command that OTHER matches: its delayed
\* callback is waiting, no callback was invoked and nothing is settled.
C15_Witness ==
  /\ last.op = "handleCommand"
  /\ last.ret = "promise"
  /\ Len(tasks) = 1
  /\ tasks[1].kind = "command"
  /\ \E i \in 1..Len(matchers) : Accepts(i, tasks[1].command)
  /\ last.fired = <<>>
  /\ last.settled = NotSettled

\* C16: handleCommand returns a future for every string command, and the
\* step that ends the processing of the command settles it, without throwing:
\* a command that no intent matches, from a user without a pending question or
\* with one that does not accept it, is rejected.  Every step before the last
\* leaves the next one in the queue.  (A future that is still pending when the
\* processing of its command has ended is never settled: nothing else holds a
\* reference to it.)
C16_AlwaysSettled ==
  /\ last.op = "handleCommand" => last.ret = "promise"
  /\ last.op = "tick" => last.ret # "threw"
  /\ CommandTick =>
       \/ last.settled.state \in {"resolved", "rejected"}
       \/ tasks # <<>> /\ tasks[Len(tasks)].kind = "answer"
  /\ (last.op = "tick" /\ last.task.kind \in {"answer", "fulfilled", "failed", "rethrown"}) =>
       \E i \in JobsIn(tasks) : tasks[i].asked = last.task.asked
  /\ AnswerDone => last.settled.state \in {"resolved", "rejected"}
  /\ (AnswerDone /\ RejectedBy(last.task.question, last.task.asked.command)) =>
       last.settled.state = "rejected"

(***************************************************************************)
(* The registry: a client that registers and deregisters intents and       *)
(* questions whose names meet, adds an utterance and sends commands.       *)
(***************************************************************************)
\* An ordinary intent that has the name of a question and an utterance of OTHER.
Intent_QUESTION ==
  [intent |-> "QUESTION", slots |-> <<>>, utterances |-> << <<Lit("10")>> >>,
   callback |-> IntentCallback("QUESTION")]

\* A question that has the name of the cancel intent.
Question_CANCEL ==
  [name |-> "CANCEL", slotType |-> "NUMBER", hasUtterances |-> FALSE,
   utterances |-> <<>>, cancel |-> TRUE,
   successAsks |-> "", failAsks |-> "", cancelAsks |-> ""]

RegistryIntents == {Intent_OTHER, Intent_QUESTION}
RegistryQuestions == {Question_QUESTION, Question_CANCEL}
RegistryNames == {"OTHER", "QUESTION", "CANCEL"}
RegistryUtterances == {[intent |-> "OTHER", utterance |-> <<Lit("bad")>>]}

\* The state after the constructor and addSlotType for each slot type.
InitRegistry ==
  /\ slotTypes = DialogSetupSlotTypes
  /\ intentNames = <<>>
  /\ intents = <<>>
  /\ matchers = <<>>
  /\ questions = EmptyMapping
  /\ activeQuestions = EmptyMapping
  /\ notFoundCallback = FALSE
  /\ tasks = <<>>
  /\ last = Returned("addSlotType", "void")

NextRegistry ==
  \/ \E intent \in RegistryIntents : Len(intents) < MaxIntents /\ RegisterIntent(intent)
  \/ \E intentName \in RegistryNames : DeregisterIntent(intentName)
  \/ \E questionData \in RegistryQuestions : RegisterQuestion(questionData)
  \/ \E questionName \in RegistryNames : DeregisterQuestion(questionName)
  \/ \E u \in RegistryUtterances : AddUtterance(u.intent, u.utterance)
  \/ \E c \in {<<"10">>, <<"bad">>} :
       Len(tasks) < MaxTasks /\ HandleCommand(CommandCall(c))
  \/ TickCommand

SpecRegistry == InitRegistry /\ [][NextRegistry]_vars

(***************************************************************************)
(* Names.                                                                  *)
(***************************************************************************)
\* The intents registered under a name, and the names held by an entity.
IntentsNamed(name) == {i \in 1..Len(intents) : intents[i].intent = name}
HeldNames == {intents[i].intent : i \in 1..Len(intents)} \cup DOMAIN questions

\* The private engine of a question has a registered intent of this kind
\* under this name.
PrivateIntent(question, name, kind) ==
  /\ Includes(question.nlc.intentNames, name)
  /\ \E i \in 1..Len(question.nlc.matchers) :
        /\ question.nlc.matchers[i].intent = name
        /\ question.nlc.matchers[i].callback.cb = kind

\* C17: no name is held by two registered entities: no two intents and no
\* intent and question share a name, and the private engine of every question
\* has its question intent and, when it can be cancelled, its cancel intent,
\* registered under distinct names.
C17_NoNameHeldTwice ==
  /\ \A i, j \in 1..Len(intents) : intents[i].intent = intents[j].intent => i = j
  /\ \A i \in 1..Len(intents) : intents[i].intent \notin DOMAIN questions
  /\ \A name \in DOMAIN questions :
        /\ PrivateIntent(questions[name], name, "success")
        /\ questions[name].questionData.cancel =>
              /\ name # "CANCEL"
              /\ PrivateIntent(questions[name], "CANCEL", "cancel")

RegistrationStep ==
  last'.op \in {"registerIntent", "registerQuestion"} /\ last'.task.command # <<>>

RegistryUnchanged ==
  UNCHANGED <<slotTypes, intentNames, intents, matchers, questions, activeQuestions,
              notFoundCallback, tasks>>

C18Body ==
  (RegistrationStep /\ last'.task.command[1] \in HeldNames)
     => (last'.ret = "false" /\ RegistryUnchanged)

\* C18: registerIntent or registerQuestion called with a name that an intent
\* or a question already holds returns false and leaves the intents, matchers,
\* questions, reserved names and pending questions as they were.
C18_DuplicateNameRefused == [][C18Body]_vars

C19Body ==
  /\ (/\ last'.op = "deregisterIntent"
      /\ last'.task.command # <<>>
      /\ IntentsNamed(last'.task.command[1]) = {})
        => (last'.ret = "false" /\ RegistryUnchanged)
  /\ (/\ last'.op = "deregisterQuestion"
      /\ last'.task.command # <<>>
      /\ last'.task.command[1] \notin DOMAIN questions)
        => (last'.ret = "false" /\ RegistryUnchanged)

\* C19: deregisterIntent(n) returns false and changes nothing when no intent
\* is named n, and deregisterQuestion(n) returns false and changes nothing
\* when no question is named n, also when n names an entity of the other kind.
C19_UnknownNameRefused == [][C19Body]_vars

(***************************************************************************)
(* Deregistering an intent.                                                *)
(***************************************************************************)
MatchersNamed(name) == {i \in 1..Len(matchers) : matchers[i].intent = name}

\* Neither an intent nor a matcher goes by this name.
Gone(name) == IntentsNamed(name) = {} /\ MatchersNamed(name) = {}

\* deregisterIntent(name) returned true in this step.
Deregistered(name) ==
  /\ last'.op = "deregisterIntent"
  /\ last'.ret = "true"
  /\ last'.task.command = <<name>>

\* registerIntent was called with this name in this step.
RegisteredAgain(name) ==
  last'.op = "registerIntent" /\ last'.task.command = <<name>>

C20Body ==
  /\ \A name \in RegistryNames :
        /\ Deregistered(name) =>
              /\ Gone(name)'
              /\ matchers' = SelectSeq(matchers, LAMBDA matcher : matcher.intent # name)
              /\ intents' = SelectSeq(intents, LAMBDA intent : intent.intent # name)
              /\ UNCHANGED <<slotTypes, questions, activeQuestions, notFoundCallback,
                             tasks>>
        /\ (Gone(name) /\ ~RegisteredAgain(name)) => Gone(name)'
  /\ (last'.op = "tick" /\ last'.task.kind = "command") =>
        \A p \in 1..Len(last'.fired) :
           last'.fired[p].cb = "intent" =>
              \E i \in 1..Len(matchers) :
                 /\ matchers[i].intent = last'.fired[p].name
                 /\ Accepts(i, last'.task.command)
                 /\ IntentsNamed(matchers[i].intent) # {}

\* C20: a successful deregisterIntent(n) removes the intent n and every
\* matcher of n, whether from registration or from addUtterance, and leaves
\* the other intents and matchers as they were and in the same order; n stays
\* without intent and matcher until registerIntent is called with n again, and
\* a command is dispatched only to a registered intent that has a matcher
\* accepting it, so no command reaches n meanwhile.
C20_DeregisteredIntentGone == [][C20Body]_vars

\* deregisterIntent("OTHER") just succeeded while a command was waiting and the
\* intent QUESTION, which shares the utterance "10", stays with its matcher.
C20_Witness ==
  /\ last.op = "deregisterIntent"
  /\ last.ret = "true"
  /\ last.task.command = <<"OTHER">>
  /\ Gone("OTHER")
  /\ IntentsNamed("QUESTION") # {}
  /\ MatchersNamed("QUESTION") # {}
  /\ tasks # <<>>

(***************************************************************************)
(* Utterances: a client whose intents share an utterance string, that adds *)
(* and removes utterances and sends commands, one of them the bare name of *)
(* an intent.                                                              *)
(***************************************************************************)
Intent_HELLO ==
  [intent |-> "HELLO", slots |-> <<>>,
   utterances |-> << <<Lit("hi")>>, <<Lit("hey")>> >>,
   callback |-> IntentCallback("HELLO")]

\* Shares the utterance "hey" with HELLO.
Intent_GREET ==
  [intent |-> "GREET", slots |-> <<>>, utterances |-> << <<Lit("hey")>> >>,
   callback |-> IntentCallback("GREET")]

\* Declares two slots; its utterance uses one of them.
Intent_COUNT ==
  [intent |-> "COUNT",
   slots |-> <<[name |-> "N", type |-> "NUMBER"], [name |-> "S", type |-> "STRING"]>>,
   utterances |-> << <<Lit("count"), Ph("N")>> >>,
   callback |-> IntentCallback("COUNT")]

UtteranceIntents == {Intent_HELLO, Intent_GREET}

\* The arguments of addUtterance and removeUtterance; the utterance "blue?" is
\* compiled into a pattern in which the question mark is an operator.
UtteranceCalls ==
  {[intent |-> "HELLO", utterance |-> <<Lit("hey")>>],
   [intent |-> "HELLO", utterance |-> <<Lit("hi")>>],
   [intent |-> "GREET", utterance |-> <<Lit("hi")>>],
   [intent |-> "GREET", utterance |-> <<Lit("blue?")>>]}

UtteranceCommands ==
  {<<"hi">>, <<"hey">>, <<"HELLO">>, <<"hi", "there">>, <<"oh", "hi">>,
   <<"blue?">>, <<"blu">>}


NextUtterances ==
  \/ \E intent \in UtteranceIntents :
       Len(intents) < MaxIntents /\ RegisterIntent(intent)
  \/ \E u \in UtteranceCalls : AddUtterance(u.intent, u.utterance)
  \/ \E u \in UtteranceCalls : RemoveUtterance(u.intent, u.utterance)
  \/ \E c \in UtteranceCommands :
       Len(tasks) < MaxTasks /\ HandleCommand(CommandCall(c))
  \/ TickCommand

SpecUtterances == InitRegistry /\ [][NextUtterances]_vars

(***************************************************************************)
(* Adding and removing utterances.                                         *)
(***************************************************************************)
\* The first intent of this name in the list has this utterance.
Lists(list, intentName, utterance) ==
  /\ FindIntent(list, intentName, 1) # 0
  /\ Includes(list[FindIntent(list, intentName, 1)].utterances, utterance)

\* Intent intentName is registered and has this utterance.
HasUtterance(intentName, utterance) == Lists(intents, intentName, utterance)

\* The matchers without the matcher of this utterance of this intent.
WithoutMatcherOf(intentName, utterance) ==
  SelectSeq(matchers,
            LAMBDA matcher : ~(/\ matcher.intent = intentName
                               /\ matcher.originalUtterance = utterance))

\* The step is removeUtterance(intentName, utterance), as the claim describes it.
RemovedExactly(intentName, utterance) ==
  IF HasUtterance(intentName, utterance)
  THEN /\ last'.ret = "true"
       /\ matchers' = WithoutMatcherOf(intentName, utterance)
       /\ Len(intents') = Len(intents)
       /\ \A i \in 1..Len(intents) :
             intents'[i] =
               IF i = FindIntent(intents, intentName, 1)
               THEN [intents[i] EXCEPT
                       !.utterances = SelectSeq(@, LAMBDA u : u # utterance)]
               ELSE intents[i]
       /\ UNCHANGED <<slotTypes, intentNames, questions, activeQuestions,
                      notFoundCallback, tasks>>
  ELSE last'.ret = "false" /\ RegistryUnchanged

C21Body ==
  last'.op = "removeUtterance" =>
     RemovedExactly(last'.task.command[1], last'.task.utterance)

\* C21: removeUtterance(n, u) on a registered intent n that has utterance u
\* returns true and removes exactly the matcher of u that belongs to n, leaving
\* the other matchers of n and every matcher of every other intent, also one
\* of an identical utterance, as they were; otherwise it returns false and
\* changes nothing.
C21_RemovesExactlyOneMatcher == [][C21Body]_vars

\* Some matcher of the list belongs to this utterance of this intent.
HasMatcher(list, intentName, utterance) ==
  \E i \in 1..Len(list) :
     /\ list[i].intent = intentName
     /\ list[i].originalUtterance = utterance

\* The step is addUtterance(intentName, utterance), as the claim describes it.
AddedLast(intentName, utterance) ==
  IF FindIntent(intents, intentName, 1) = 0 \/ HasUtterance(intentName, utterance)
  THEN last'.ret = "false" /\ RegistryUnchanged
  ELSE /\ last'.ret = "true"
       /\ Len(matchers') = Len(matchers) + 1
       /\ SubSeq(matchers', 1, Len(matchers)) = matchers
       /\ matchers'[Len(matchers')].intent = intentName
       /\ matchers'[Len(matchers')].originalUtterance = utterance
       /\ Lists(intents', intentName, utterance)

\* The matcher's utterance was not given when its intent was registered.
AddedLater(matcher) ==
  \A intent \in UtteranceIntents :
     intent.intent = matcher.intent =>
        ~Includes(intent.utterances, matcher.originalUtterance)

C22Body ==
  /\ last'.op = "addUtterance" =>
        AddedLast(last'.task.command[1], last'.task.utterance)
  /\ \A i \in 1..Len(matchers) :
        (/\ AddedLater(matchers[i])
         /\ Lists(intents', matchers[i].intent, matchers[i].originalUtterance)) =>
           HasMatcher(matchers', matchers[i].intent, matchers[i].originalUtterance)

\* C22: addUtterance(n, u) returns false and changes nothing when n is not
\* registered or already has u; otherwise it returns true and puts a matcher
\* of u for n behind every matcher registered before, and that matcher stays
\* for as long as n is registered with u, so that from then on a command
\* matching u is dispatched to n.
C22_AddedUtteranceMatches == [][C22Body]_vars

(***************************************************************************)
(* A command that is the name of an intent.                                *)
(***************************************************************************)
\* No matcher accepts the command and the command is the name of an intent.
OnlyTheName(command, intentName) ==
  /\ command = <<intentName>>
  /\ IntentsNamed(intentName) # {}
  /\ \A i \in 1..Len(matchers) : ~Accepts(i, command)

\* C26: a command that no matcher accepts and that is exactly the name of a
\* registered intent matches that intent with no slot values: the promise is
\* resolved with that intent and the not-found path is not taken.
C26_IntentNameAsCommand ==
  (CommandTick /\ last.ret # "threw") =>
     \A intentName \in {"HELLO", "GREET"} :
        OnlyTheName(last.task.command, intentName) =>
           /\ last.settled.state = "resolved"
           /\ last.settled.value = [intent |-> intentName, slots |-> <<>>]

(***************************************************************************)
(* Slot types: a client that adds and removes slot types while intents and *)
(* a question that rely on them come and go.                               *)
(***************************************************************************)
\* A second slot type of the name FIRST, with another matcher.
Slot_FIRST_ANOTHER ==
  [type |-> "FIRST", kind |-> "string", fn |-> "", list |-> << <<"RED">> >>,
   baseMatcher |-> ""]

\* A question without a cancel callback whose answer is of type FIRST.
Question_PICK ==
  [name |-> "PICK", slotType |-> "FIRST", hasUtterances |-> FALSE,
   utterances |-> <<>>, cancel |-> FALSE,
   successAsks |-> "", failAsks |-> "", cancelAsks |-> ""]

\* One of the slot types the client adds has a name for which every object
\* inherits a member.
NextSlotTypes ==
  \/ \E slotType \in {Slot_FIRST, Slot_FIRST_ANOTHER, Slot_NUMBER,
                       [Slot_FIRST EXCEPT !.type = "constructor"]} :
       AddSlotType(slotType)
  \/ \E slotTypeName \in {"FIRST", "NUMBER", "constructor"} :
        RemoveSlotType(slotTypeName)
  \/ \E slotTypeName \in {"FIRST", "NUMBER"} : CloneRemoveSlotType(slotTypeName)
  \/ \E intent \in {Intent_GUESS, Intent_OTHER} :
       Len(intents) < MaxIntents /\ RegisterIntent(intent)
  \/ DeregisterIntent("GUESS")
  \/ RegisterQuestion(Question_PICK)
  \/ Len(tasks) < MaxTasks
       /\ HandleCommand(CommandCall(<<"say", "first">>))
  \/ TickCommand

SpecSlotTypes == Init /\ [][NextSlotTypes]_vars

(***************************************************************************)
(* Properties of the slot-type table.                                      *)
(***************************************************************************)
\* Some registered intent declares a slot of this type.
ReliedOn(slotTypeName) ==
  \E i \in 1..Len(intents) :
     \E j \in 1..Len(intents[i].slots) : intents[i].slots[j].type = slotTypeName

C23Body ==
  (/\ last'.op = "addSlotType"
   /\ last'.task.command # <<>>
   /\ last'.task.command[1] \in DOMAIN slotTypes)
     => (last'.ret = "threw" /\ RegistryUnchanged)

\* C23: addSlotType throws when a slot type of that name is registered and
\* leaves the registered slot type, and everything else, as it was.
C23_DuplicateSlotTypeThrows == [][C23Body]_vars

\* addSlotType was refused for FIRST, whose matcher is still that of the first
\* registration.
C23_Witness ==
  /\ last.op = "addSlotType"
  /\ last.ret = "threw"
  /\ last.task.command = <<"FIRST">>
  /\ "FIRST" \in DOMAIN slotTypes
  /\ slotTypes["FIRST"] \in {LowerCasedMatcher(Slot_FIRST),
                             LowerCasedMatcher(Slot_FIRST_ANOTHER)}

C24Body ==
  /\ (last'.op = "removeSlotType" /\ last'.task.command # <<>>) =>
        IF ReliedOn(last'.task.command[1])
        THEN last'.ret = "threw" /\ RegistryUnchanged
        ELSE /\ last'.ret = "void"
             /\ slotTypes' = [n \in DOMAIN slotTypes \ {last'.task.command[1]} |->
                                slotTypes[n]]
             /\ UNCHANGED <<intentNames, intents, matchers, questions,
                            activeQuestions, notFoundCallback, tasks>>
  /\ (/\ last.op = "removeSlotType"
      /\ last.ret = "void"
      /\ last'.op = "addSlotType"
      /\ last'.task.command = last.task.command) =>
        /\ last'.ret = "void"
        /\ last'.task.command[1] \in DOMAIN slotTypes'

\* C24: removeSlotType(name) throws and removes nothing while a registered
\* intent declares a slot of that type; otherwise it removes the type and
\* nothing else, without error, and an addSlotType with the same name that
\* follows the removal succeeds.
C24_RemoveSlotTypeGuarded == [][C24Body]_vars

\* C25: every slot type that the slot list of a registered intent refers to,
\* and the slot type of the private intent of every registered question, is
\* in the slot-type table, and no evaluation of a command meets an unknown
\* slot type.
C25_SlotTypesPresent ==
  /\ \A i \in 1..Len(intents) :
        \A j \in 1..Len(intents[i].slots) :
           intents[i].slots[j].type \in DOMAIN slotTypes
  /\ \A name \in DOMAIN questions :
        questions[name].questionData.slotType \in DOMAIN slotTypes
  /\ (last.op = "tick" => last.ret # "threw")

(***************************************************************************)
(* A match of a bare placeholder does not end the scan.                    *)
(***************************************************************************)
\* The whole utterance of matcher i is one placeholder.
WholePlaceholder(i) ==
  Len(matchers[i].originalUtterance) = 1 /\ matchers[i].originalUtterance[1].k = "ph"

\* Matcher i accepts the command and its utterance is more than a placeholder.
Specific(i, command) == Accepts(i, command) /\ ~WholePlaceholder(i)

\* Matcher i is the first to accept the command and is a bare placeholder.
BareFirst(i, command) ==
  /\ Accepts(i, command)
  /\ WholePlaceholder(i)
  /\ \A k \in 1..(i - 1) : ~Accepts(k, command)

\* What the promise of a command is resolved with when matcher i is its match.
ResultOf(i, command) ==
  Resolved([intent |-> matchers[i].intent,
            slots |-> check(slotTypes, matchers[i], command).slots])

\* C27: when the first matcher to accept a command is a bare placeholder the
\* scan goes on; if a later matcher that is not a bare placeholder accepts,
\* the first such matcher is the result of the command and nothing after it
\* is evaluated; if no later matcher accepts, the bare match is the result.
C27_BareSlotKeepsScanning ==
  (CommandTick /\ last.ret # "threw") =>
     \A i \in 1..Len(matchers) :
        BareFirst(i, last.task.command) =>
           /\ i < Len(matchers) => Includes(last.checked, i + 1)
           /\ \A j \in (i + 1)..Len(matchers) :
                 (/\ Specific(j, last.task.command)
                  /\ \A k \in (i + 1)..(j - 1) : ~Specific(k, last.task.command)) =>
                    /\ last.settled = ResultOf(j, last.task.command)
                    /\ last.checked = Indices(j)
           /\ (\A j \in (i + 1)..Len(matchers) : ~Accepts(j, last.task.command)) =>
                 last.settled = ResultOf(i, last.task.command)

\* "say first" was accepted by the bare placeholder of ANY and then by a later
\* utterance of ECHO, which is the result; a matcher behind it was not evaluated.
C27_Witness ==
  /\ CommandTick
  /\ last.task.command = <<"say", "first">>
  /\ Len(last.fired) = 2
  /\ last.fired[1].name = "ANY"
  /\ last.fired[2].name = "ECHO"
  /\ last.settled.state = "resolved"
  /\ last.settled.value.intent = "ECHO"
  /\ Len(last.checked) < Len(matchers)

(***************************************************************************)
(* Compiling: a client whose utterances leave declared slots out, repeat   *)
(* one, or hold a placeholder that is no declared slot, whose slot types   *)
(* are functions, and one of whose intents uses inherited names.           *)
(***************************************************************************)
\* A function slot type that returns the text without its exclamation marks.
Slot_QUIET ==
  [type |-> "QUIET", kind |-> "function", fn |-> "withoutBangs", list |-> <<>>,
   baseMatcher |-> ""]

\* Declares no slots; its utterance holds a placeholder.
Intent_TAG ==
  [intent |-> "TAG", slots |-> <<>>, utterances |-> << <<Lit("tag"), Ph("A")>> >>,
   callback |-> IntentCallback("TAG")]

Intent_SHOUT ==
  [intent |-> "SHOUT", slots |-> <<[name |-> "Q", type |-> "QUIET"]>>,
   utterances |-> << <<Lit("shout"), Ph("Q")>> >>,
   callback |-> IntentCallback("SHOUT")]

\* Declares slots whose name or type is the name of a member every object
\* inherits: constructor is in no utterance, valueOf is no slot type of the
\* client.  Its slot W takes one word of letters, digits and _.
Intent_SAY ==
  [intent |-> "SAY",
   slots |-> <<[name |-> "constructor", type |-> "STRING"],
               [name |-> "S", type |-> "STRING"],
               [name |-> "V", type |-> "valueOf"],
               [name |-> "W", type |-> "WORD"]>>,
   utterances |-> << <<Lit("say"), Ph("S")>>, <<Lit("hold"), Ph("V")>>,
                     <<Lit("echo"), Ph("W")>> >>,
   callback |-> IntentCallback("SAY")]

CompileSlotTypes == {Slot_STRING, Slot_NUMBER, Slot_QUIET, Slot_WORD}
CompileIntents == {Intent_COUNT, Intent_TAG, Intent_SHOUT, Intent_SAY}
CompileCommands ==
  {<<"count", "0">>, <<"count", "9,000.01">>, <<"2", "and", "10">>,
   <<"shout", "!!!">>, <<"shout", "wow!">>, <<"tag", "{A}">>, <<"say", "hi">>,
   <<"hold", "it">>, <<"echo", "hi">>, <<"echo", "don^t">>}

\* The state after the constructor and addSlotType for each slot type.
InitCompile ==
  /\ slotTypes = [n \in {slotType.type : slotType \in CompileSlotTypes} |->
                    CHOOSE slotType \in CompileSlotTypes : slotType.type = n]
  /\ intentNames = <<>>
  /\ intents = <<>>
  /\ matchers = <<>>
  /\ questions = EmptyMapping
  /\ activeQuestions = EmptyMapping
  /\ notFoundCallback = FALSE
  /\ tasks = <<>>
  /\ last = Named("addSlotType", "void", "QUIET")

NextCompile ==
  \/ \E intent \in CompileIntents : Len(intents) < MaxIntents /\ RegisterIntent(intent)
  \/ \E u \in {[intent |-> "TAG", utterance |-> <<Lit("label"), Ph("A")>>],
               [intent |-> "COUNT", utterance |-> <<Lit("count"), Ph("A")>>],
               [intent |-> "COUNT", utterance |-> <<Ph("N"), Lit("and"), Ph("N")>>]} :
       AddUtterance(u.intent, u.utterance)
  \/ \E c \in CompileCommands :
       Len(tasks) < MaxTasks /\ HandleCommand(CommandCall(c))
  \/ TickCommand

SpecCompile == InitCompile /\ [][NextCompile]_vars

(***************************************************************************)
(* Properties of compiled matchers.                                        *)
(***************************************************************************)
\* The utterance holds a placeholder that is not a declared slot of the intent.
Undeclared(intent, utterance) ==
  \E k \in 1..Len(utterance) :
     /\ utterance[k].k = "ph"
     /\ IndexOfSlot(intent.slots, utterance[k].w, 1) = 0

C28Body ==
  /\ (/\ last'.op = "addUtterance"
      /\ FindIntent(intents, last'.task.command[1], 1) # 0
      /\ ~HasUtterance(last'.task.command[1], last'.task.utterance)
      /\ Undeclared(intents[FindIntent(intents, last'.task.command[1], 1)],
                    last'.task.utterance))
        => last'.ret = "threw"
  /\ (/\ last'.op = "registerIntent"
      /\ last'.ret # "false"
      /\ \E k \in 1..Len(intents'[Len(intents')].utterances) :
            Undeclared(intents'[Len(intents')], intents'[Len(intents')].utterances[k]))
        => last'.ret = "threw"

\* C28: registerIntent and addUtterance throw when an utterance holds a
\* placeholder whose name is not a declared slot of the intent, also when the
\* intent declares no slots.
C28_UndeclaredPlaceholderThrows == [][C28Body]_vars

\* C29: the capture order of every compiled matcher is as long as the slot
\* list of its intent.
C29_CaptureCountIsSlotCount ==
  \A i \in 1..Len(matchers) : Len(matchers[i].slotMapping) = Len(matchers[i].slots)

\* Every placeholder of matcher i is of a slot type whose matcher is a function.
FunctionMatcher(i) ==
  /\ matchers[i].slotMapping # <<>>
  /\ \A k \in 1..Len(matchers[i].slotMapping) :
        /\ matchers[i].slotMapping[k].type \in DOMAIN slotTypes
        /\ slotTypes[matchers[i].slotMapping[k].type].kind = "function"

\* What the function of placeholder k of matcher i returns for its capture.
ReturnValue(i, k, command) ==
  getFunctionSlotType(RegExpMatch(matchers[i].regExp, command).caps[k],
                      slotTypes[matchers[i].slotMapping[k].type])

\* No function of matcher i returns undefined or the empty string.
Usable(i, command) ==
  \A k \in 1..Len(matchers[i].slotMapping) :
     /\ ReturnValue(i, k, command) # Undefined
     /\ ReturnValue(i, k, command) # Str(<<>>)

\* The callback of matcher i was invoked with the values its functions returned.
Received(i, command) ==
  \E p \in 1..Len(last.fired) :
     /\ last.fired[p].name = matchers[i].intent
     /\ InDeclaredOrder(matchers[i], command, SlotValues(last.fired[p]))

\* C30: a matcher whose slot types are functions accepts the text its pattern
\* captured exactly when no function returns undefined or the empty string,
\* a returned 0 included, and the callback receives the returned values, not
\* the captured text: the number 9000.01 for "9,000.01".
C30_FunctionSlotValues ==
  (CommandTick /\ last.ret # "threw") =>
     /\ \A c \in 1..Len(last.checked) :
           (/\ FunctionMatcher(last.checked[c])
            /\ RegExpMatch(matchers[last.checked[c]].regExp, last.task.command).ok) =>
              (Usable(last.checked[c], last.task.command)
                 <=> Received(last.checked[c], last.task.command))
     /\ \A p \in 1..Len(last.fired) :
           (last.fired[p].name = "COUNT"
              /\ last.task.command = <<"count", "9,000.01">>) =>
                 last.fired[p].args[1] = Num("9000.01")

\* "count 0" matched: NUMBER returned 0 and the callback of COUNT received it.
C30_Witness ==
  /\ CommandTick
  /\ last.task.command = <<"count", "0">>
  /\ last.settled.state = "resolved"
  /\ \E p \in 1..Len(last.fired) :
        /\ last.fired[p].name = "COUNT"
        /\ last.fired[p].args = <<Num("0"), Undefined>>

(***************************************************************************)
(* The context datum.                                                      *)
(***************************************************************************)
\* The slot values matcher i found in the command, in declared order.
ValuesOf(i, command) ==
  [k \in 1..Len(check(slotTypes, matchers[i], command).slots) |->
     check(slotTypes, matchers[i], command).slots[k].value]

\* C31: the callback of a matched intent receives the datum handleCommand was
\* given, whatever its value, followed by the slot values in declared order,
\* and the slot values alone when no datum was given.
C31_DatumFirst ==
  CommandTick =>
     \A p \in 1..Len(last.fired) :
        last.fired[p].cb = "intent" =>
           \E c \in 1..Len(last.checked) :
              /\ matchers[last.checked[c]].intent = last.fired[p].name
              /\ Accepts(last.checked[c], last.task.command)
              /\ last.fired[p].args =
                   (IF last.task.data # Undefined THEN <<last.task.data>> ELSE <<>>)
                     \o ValuesOf(last.checked[c], last.task.command)

(***************************************************************************)
(* Text around the utterance.                                              *)
(***************************************************************************)
\* The command is the utterance of matcher i followed by n more words, n >= 0.
StartsWith(i, command, n) ==
  /\ n <= Len(command)
  /\ RegExpMatch(matchers[i].regExp, SubSeq(command, 1, Len(command) - n)).ok

\* C32: an utterance is matched against the start of the command: a command
\* that is the utterance followed by more text is accepted by its matcher, and
\* a command with text before the utterance is not.
C32_MatchesAtTheStart ==
  CommandTick =>
     \A c \in 1..Len(last.checked) :
        /\ StartsWith(last.checked[c], last.task.command, 1)
              => Accepts(last.checked[c], last.task.command)
        /\ (/\ ~StartsWith(last.checked[c], last.task.command, 0)
            /\ ~StartsWith(last.checked[c], last.task.command, 1))
              => ~Accepts(last.checked[c], last.task.command)

(***************************************************************************)
(* Base matchers: a client whose utterance is two adjacent placeholders,   *)
(* the first of a type that accepts only the word "first".                 *)
(***************************************************************************)
\* The slot type FIRST restricted to a single word by its baseMatcher.
Slot_FIRST_WORD ==
  [type |-> "FIRST", kind |-> "string", fn |-> "", list |-> << <<"first">> >>,
   baseMatcher |-> "\\w+"]

Intent_COLLISION_TEST ==
  [intent |-> "COLLISION_TEST",
   slots |-> <<[name |-> "First", type |-> "FIRST"],
               [name |-> "Second", type |-> "STRING"]>>,
   utterances |-> << <<Ph("First"), Ph("Second")>> >>,
   callback |-> IntentCallback("COLLISION_TEST")]

ManyWords == <<"first", "followed", "by", "many", "more", "words">>

NextCollision ==
  \/ \E slotType \in {Slot_FIRST, Slot_FIRST_WORD, Slot_STRING} : AddSlotType(slotType)
  \/ RemoveSlotType("FIRST")
  \/ Len(intents) < MaxIntents /\ RegisterIntent(Intent_COLLISION_TEST)
  \/ DeregisterIntent("COLLISION_TEST")
  \/ \E c \in {ManyWords, <<"first", "words">>, <<"second", "words">>, <<"first">>} :
        /\ Len(tasks) < MaxTasks
        /\ HandleCommand([form |-> "command", command |-> c, data |-> Undefined,
                          userId |-> Undefined])
  \/ TickCommand

SpecCollision == Init /\ [][NextCollision]_vars

\* The scan of the six-word command reached the matcher of "{First} {Second}"
\* while the slot types FIRST (accepting "first") and STRING are registered.
CollisionChecked ==
  /\ CommandTick
  /\ last.task.command = ManyWords
  /\ last.checked # <<>>
  /\ {"FIRST", "STRING"} \subseteq DOMAIN slotTypes
  /\ slotTypes["FIRST"].list = << <<"first">> >>

\* C33: for the utterance "{First} {Second}", First of a type that accepts only
\* "first" and Second a STRING: when the type has the baseMatcher \w+ the command
\* "first followed by many more words" matches and the callback receives "first"
\* and "followed by many more words"; when it has no baseMatcher the first
\* capture takes all but the last word and the command does not match.
C33_BaseMatcherLimitsCapture ==
  CollisionChecked =>
     IF slotTypes["FIRST"].baseMatcher = "\\w+"
     THEN /\ last.fired = <<[cb |-> "intent", name |-> "COLLISION_TEST",
                             args |-> <<Str(<<"first">>), Str(Tail(ManyWords))>>]>>
          /\ last.settled.state = "resolved"
     ELSE /\ last.fired = <<>>
          /\ last.settled.state = "rejected"
          /\ RegExpMatch(matchers[last.checked[1]].regExp, ManyWords).caps
               = <<SubSeq(ManyWords, 1, 5), <<"words">> >>

C33_Witness ==
  /\ CollisionChecked
  /\ slotTypes["FIRST"].baseMatcher = "\\w+"
  /\ Len(last.fired) = 1
  /\ last.fired[1].args = <<Str(<<"first">>), Str(Tail(ManyWords))>>

(***************************************************************************)
(* Questions asked from inside an answer's callbacks.                      *)
(***************************************************************************)
\* C34: the user's question is cleared before any callback of the answer runs
\* and is not cleared again afterwards: the steps that follow the fail callback
\* leave the pending questions as they are, so a question the fail callback
\* asked for the same user is that user's pending question once the answer has
\* been processed.  The fail callback calls ask(name), which asks for the
\* anonymous user.
C34_AskedFromFailStaysPending ==
  [][(last'.op = "tick" /\ last'.task.kind \in {"rethrown", "rejecting"}) =>
       activeQuestions' = activeQuestions]_vars

(***************************************************************************)
(* How many callbacks one command invokes.                                 *)
(***************************************************************************)
\* The positions of the last operation's invocations of callbacks of these kinds.
Fired(kinds) == {p \in 1..Len(AllFired) : AllFired[p].cb \in kinds}

\* C35: the processing of one handleCommand invokes at most one intent
\* callback, whatever bare single-slot and other utterances are registered.
C35_AtMostOneIntentCallback ==
  CommandTick => Cardinality(Fired({"intent"})) <= 1

\* C36: a command evaluated as the answer to a pending question invokes exactly
\* one of the question's success, cancel and fail callbacks, exactly once.
C36_ExactlyOneAnswerCallback ==
  AnswerDone =>
     /\ Cardinality(Fired({"success", "cancel", "fail"})) = 1
     /\ \A p \in Fired({"success", "cancel", "fail"}) :
           AllFired[p].name = last.task.question.name

(***************************************************************************)
(* Overlapping calls: a client that calls handleCommand and ask again      *)
(* before the delayed callbacks of its earlier calls have run.             *)
(***************************************************************************)
MaxPending == 2



NextRace ==
  \/ \E u \in DialogUsers, n \in {"QUESTION", "RETRY"} :
       /\ Len(tasks) < MaxPending
       /\ Ask([form |-> "options", question |-> n, data |-> Undefined, userId |-> u])
  \/ \E c \in {<<"10">>, <<"bad">>}, u \in DialogUsers :
       /\ Len(tasks) < MaxPending
       /\ HandleCommand([form |-> "options", command |-> c, data |-> Undefined,
                         userId |-> u])
  \/ TickCommand
  \/ TickAnswer
  \/ TickPass
  \/ TickAnswered
  \/ TickFailed
  \/ TickRejected
  \/ TickAsk

SpecRace == InitDialog /\ [][NextRace]_vars

\* C37: a command passed to handleCommand before ask(Q) was called for its user
\* is never evaluated as the answer to Q: the question a command is handed to
\* was already that user's pending question when handleCommand was called.
C37_OnlyLaterCommandsAnswer ==
  HandedToQuestion =>
     /\ tasks # <<>>
     /\ tasks[Len(tasks)].kind = "answer"
     /\ tasks[Len(tasks)].question = last.task.before

(***************************************************************************)
(* Deregistering a question: a client that deregisters only while none of  *)
(* its calls is outstanding, so that every command it passes afterwards is *)
(* passed to an engine in which the question is no longer registered.      *)
(***************************************************************************)
NextDeregister ==
  \/ \E questionName \in AskingQuestionNames :
        tasks = <<>> /\ DeregisterQuestion(questionName)
  \/ \E call \in AskingAsks : Len(tasks) < MaxTasks /\ Ask(call)
  \/ \E call \in AskingCalls : Len(tasks) < MaxTasks /\ HandleCommand(call)
  \/ TickCommand
  \/ TickAnswer
  \/ TickPass
  \/ TickAnswered
  \/ TickFailed
  \/ TickRejected
  \/ TickAsk

SpecDeregister == InitDialog /\ [][NextDeregister]_vars

\* C38: once deregisterQuestion(Q) has returned true, no later command invokes
\* the success, fail or cancel callback of Q and no promise of handleCommand is
\* settled with the name of Q, also when Q was pending for a user: the
\* question whose callbacks an answer invokes, and with whose name the promise
\* is settled, is registered.
C38_DeregisteredQuestionSilent ==
  AnswerDone =>
     /\ \A p \in Fired({"success", "fail", "cancel"}) :
           AllFired[p].name \in DOMAIN questions
     /\ last.settled.state # "pending" =>
           \A n \in {"QUESTION", "FIRST_QUESTION"} :
              last.settled.value = Str(<<n>>) => n \in DOMAIN questions

(***************************************************************************)
(* Registration calls that throw.                                          *)
(***************************************************************************)
\* C39: when registerIntent or addUtterance throws while it compiles an
\* utterance, the intents with their utterance lists, the reserved names and
\* the matchers are as they were before the call.
C39_ThrowLeavesRegistryAlone ==
  [][(last'.op \in {"registerIntent", "addUtterance"} /\ last'.ret = "threw")
       => UNCHANGED <<intents, intentNames, matchers>>]_vars

(***************************************************************************)
(* Intents, their utterance lists and the matchers.                        *)
(***************************************************************************)
\* The matchers compiled for this utterance of the intent of this name.
MatchersOf(intentName, utterance) ==
  {m \in 1..Len(matchers) :
     matchers[m].intent = intentName /\ matchers[m].originalUtterance = utterance}

\* C40: the matcher list holds exactly one matcher for each utterance in the
\* list of each registered intent, and no matcher of an intent that is not
\* registered or of an utterance that is not in its intent's list.
C40_OneMatcherPerUtterance ==
  /\ \A i \in 1..Len(intents) :
        \A k \in 1..Len(intents[i].utterances) :
           Cardinality(MatchersOf(intents[i].intent, intents[i].utterances[k])) = 1
  /\ \A m \in 1..Len(matchers) :
        \E i \in 1..Len(intents) :
           /\ intents[i].intent = matchers[m].intent
           /\ Includes(intents[i].utterances, matchers[m].originalUtterance)

====
